---- MODULE Spec2Model ----
(***************************************************************************)
(* Parameter protocol of the ReSpeaker Mic Array v2.0 control tool:        *)
(* the parameter registry (params.rs) and the device session's read and    *)
(* write calls over USB vendor control transfers (respeaker_device.rs).    *)
(***************************************************************************)
EXTENDS Integers, Sequences, FiniteSets, TLC

VARIABLES
    call,       \* the most recent call on the device session and its arguments
    ret,        \* the Result that call returned
    transfers,  \* the control transfers that call issued on the handle, in order
    rt,         \* an integer taken through the write encoding and the read decoding
    params,           \* InnerUiState.params: the values the UI shows and edits
    previous_params,  \* InnerUiState.previous_params: the values as last adopted
    visited,          \* the parameters the running write-back pass has visited
    state_lock,       \* owner of the Mutex around InnerUiState
    device_lock,      \* owner of the Mutex around ReSpeakerDevice
    device,           \* the ReSpeakerDevice: index, handle, claimed interface
    ui,               \* position and locals of the UI thread
    refresh,          \* position and locals of the refresh thread
    shutdown,         \* the shutdown channel
    hist,             \* history: transport operations and edits, for the properties
    cli               \* position and locals of a command that uses the registry
                      \* or the session directly: list, a caller of sorted or config

ui_vars == << params, previous_params, visited, state_lock, device_lock, device,
              ui, refresh, shutdown, hist >>

vars == << call, ret, transfers, rt, params, previous_params, visited, state_lock,
           device_lock, device, ui, refresh, shutdown, hist, cli >>

----------------------------------------------------------------------------
(* Machine integers.  i32 values are kept as integers of that range; the   *)
(* 32-bit patterns of u32/f32 are never formed as one number.              *)

\* i32::MIN and i32::MAX
MinI32 == -2147483647 - 1

MaxI32 == -(MinI32 + 1)

RECURSIVE BitOr(_, _)
\* a | b on unsigned integers
BitOr(a, b) ==
    IF a = 0 THEN b
    ELSE IF b = 0 THEN a
    ELSE (IF a % 2 = 1 \/ b % 2 = 1 THEN 1 ELSE 0) + 2 * BitOr(a \div 2, b \div 2)

\* the bytes of an i32 in two's complement, most significant byte first
to_be_bytes(i) ==
    LET w == IF i >= 0 THEN i ELSE (i + 1073741824) + 1073741824
    IN  << (w \div 16777216) + (IF i < 0 THEN 128 ELSE 0),
           (w \div 65536) % 256, (w \div 256) % 256, w % 256 >>

\* i32::to_le_bytes: two's complement, least significant byte first
to_le_bytes(i) ==
    LET w == IF i >= 0 THEN i ELSE (i + 1073741824) + 1073741824
    IN  << w % 256, (w \div 256) % 256, (w \div 65536) % 256,
           (w \div 16777216) + (IF i < 0 THEN 128 ELSE 0) >>

\* i32::from_le_bytes
from_le_bytes(b) ==
    LET w == b[1] + 256 * b[2] + 65536 * b[3] + 16777216 * (b[4] % 128)
    IN  IF b[4] >= 128 THEN (w - 1073741824) - 1073741824 ELSE w

----------------------------------------------------------------------------
(* f32: an IEEE-754 binary32 value is the record of its three bit fields,  *)
(* sign s, biased exponent e and fraction f (bits 31, 30..23, 22..0).      *)

F32(s, e, f) == [s |-> s, e |-> e, f |-> f]

IsNaN(x) == x.e = 255 /\ x.f # 0
IsInf(x) == x.e = 255 /\ x.f = 0
IsFinite(x) == x.e < 255

\* position of a non-NaN f32 in the numeric order (+0.0 and -0.0 coincide)
F32Key(x) ==
    LET mag == x.e * 8388608 + x.f IN IF x.s = 0 THEN mag ELSE -mag

\* a < b on f32: false whenever an operand is NaN
F32Lt(a, b) == ~IsNaN(a) /\ ~IsNaN(b) /\ F32Key(a) < F32Key(b)

\* a <= b on f32: false whenever an operand is NaN
F32Le(a, b) == ~IsNaN(a) /\ ~IsNaN(b) /\ F32Key(a) <= F32Key(b)

\* f32::to_le_bytes: the bit pattern, least significant byte first
f32_to_le_bytes(x) ==
    << x.f % 256, (x.f \div 256) % 256,
       (x.e % 2) * 128 + (x.f \div 65536), x.s * 128 + (x.e \div 2) >>

----------------------------------------------------------------------------
(* The parameter registry.                                                 *)

\* enum Param, in declaration order (the order of Param::iter())
Param ==
    << "AECFREEZEONOFF", "AECNORM", "AECPATHCHANGE", "AECSILENCELEVEL",
       "AECSILENCEMODE", "AGCDESIREDLEVEL", "AGCGAIN", "AGCMAXGAIN",
       "AGCONOFF", "AGCTIME", "CNIONOFF", "DOAANGLE",
       "ECHOONOFF", "FREEZEONOFF", "FSBPATHCHANGE", "FSBUPDATED",
       "GAMMAVAD_SR", "GAMMA_E", "GAMMA_ENL", "GAMMA_ETAIL",
       "GAMMA_NN", "GAMMA_NN_SR", "GAMMA_NS", "GAMMA_NS_SR",
       "HPFONOFF", "MIN_NN", "MIN_NN_SR", "MIN_NS",
       "MIN_NS_SR", "NLAEC_MODE", "NLATTENONOFF", "NONSTATNOISEONOFF",
       "NONSTATNOISEONOFF_SR", "RT60", "RT60ONOFF", "SPEECHDETECTED",
       "STATNOISEONOFF", "STATNOISEONOFF_SR", "TRANSIENTONOFF", "VOICEACTIVITY" >>

ParamSet == { Param[i] : i \in DOMAIN Param }

Config(id, cmd, min, max, access, n) ==
    [id |-> id, cmd |-> cmd, min |-> min, max |-> max, access |-> access,
     value_descriptions |-> n]

\* the definition is filed under id 19 whatever id is given
int_n_id_19(id, cmd, max, min, access) ==
    [variant |-> "IntMany", config |-> Config(19, cmd, min, max, access, 1)]

\* the ParamConfig constructors; value_descriptions is kept as the number of labels
int_n(id, cmd, max, min, access) ==
    [variant |-> "IntMany", config |-> Config(id, cmd, min, max, access, 1)]

int2(id, cmd, max, min, access) ==
    [variant |-> "IntFew", config |-> Config(id, cmd, min, max, access, 2)]

int3(id, cmd, max, min, access) ==
    [variant |-> "IntFew", config |-> Config(id, cmd, min, max, access, 3)]

\* int4 with the two bounds taken in the other order
int4_min_first(id, cmd, max, min, access) ==
    [variant |-> "IntFew", config |-> Config(id, cmd, max, min, access, 4)]

int4(id, cmd, max, min, access) ==
    [variant |-> "IntFew", config |-> Config(id, cmd, min, max, access, 4)]

float(id, cmd, max, min, access) ==
    [variant |-> "Float", config |-> Config(id, cmd, min, max, access, 0)]

\* the enum_map! table of Param::config
MAP ==
    ("AECFREEZEONOFF" :> int2(18, 7, 1, 0, "ReadWrite")) @@
    ("AECNORM" :> float(18, 19, F32(0, 131, 0), F32(0, 125, 0), "ReadWrite")) @@  \* max 16., min 0.25
    ("AECPATHCHANGE" :> int2(18, 25, 1, 0, "ReadOnly")) @@
    ("RT60" :> float(18, 26, F32(0, 126, 6710886), F32(0, 125, 0), "ReadOnly")) @@  \* max 0.9, min 0.25
    ("HPFONOFF" :> int4(18, 27, 3, 0, "ReadWrite")) @@
    ("RT60ONOFF" :> int2(18, 28, 1, 0, "ReadWrite")) @@
    ("AECSILENCELEVEL" :> float(18, 30, F32(0, 127, 0), F32(0, 97, 618591), "ReadWrite")) @@  \* max 1., min 1e-09
    ("AECSILENCEMODE" :> int2(18, 31, 1, 0, "ReadOnly")) @@
    ("AGCONOFF" :> int2(19, 0, 1, 0, "ReadWrite")) @@
    ("AGCMAXGAIN" :> float(19, 1, F32(0, 136, 7995392), F32(0, 127, 0), "ReadWrite")) @@  \* max 1000., min 1.
    ("AGCDESIREDLEVEL" :> float(19, 2, F32(0, 126, 8220836), F32(0, 100, 2870391), "ReadWrite")) @@  \* max 0.99, min 1e-08
    ("AGCGAIN" :> float(19, 3, F32(0, 136, 7995392), F32(0, 127, 0), "ReadWrite")) @@  \* max 1000., min 1.
    ("AGCTIME" :> float(19, 4, F32(0, 127, 0), F32(0, 123, 5033165), "ReadWrite")) @@  \* max 1., min 0.1
    ("CNIONOFF" :> int2(19, 5, 1, 0, "ReadWrite")) @@
    ("FREEZEONOFF" :> int2(19, 6, 1, 0, "ReadWrite")) @@
    ("STATNOISEONOFF" :> int2(19, 8, 1, 0, "ReadWrite")) @@
    ("GAMMA_NS" :> float(19, 9, F32(0, 128, 4194304), F32(0, 0, 0), "ReadWrite")) @@  \* max 3., min 0.
    ("MIN_NS" :> float(19, 10, F32(0, 127, 0), F32(0, 0, 0), "ReadWrite")) @@  \* max 1., min 0.
    ("NONSTATNOISEONOFF" :> int2(19, 11, 1, 0, "ReadWrite")) @@
    ("GAMMA_NN" :> float(19, 12, F32(0, 128, 4194304), F32(0, 0, 0), "ReadWrite")) @@  \* max 3., min 0.
    ("MIN_NN" :> float(19, 13, F32(0, 127, 0), F32(0, 0, 0), "ReadWrite")) @@  \* max 1., min 0.
    ("ECHOONOFF" :> int2(19, 14, 1, 0, "ReadWrite")) @@
    ("GAMMA_E" :> float(19, 15, F32(0, 128, 4194304), F32(0, 0, 0), "ReadWrite")) @@  \* max 3., min 0.
    ("GAMMA_ETAIL" :> float(19, 16, F32(0, 128, 4194304), F32(0, 0, 0), "ReadWrite")) @@  \* max 3., min 0.
    ("GAMMA_ENL" :> float(19, 17, F32(0, 129, 2097152), F32(0, 0, 0), "ReadWrite")) @@  \* max 5., min 0.
    ("NLATTENONOFF" :> int2(19, 18, 1, 0, "ReadWrite")) @@
    ("NLAEC_MODE" :> int3(19, 20, 2, 0, "ReadWrite")) @@
    ("SPEECHDETECTED" :> int2(19, 22, 1, 0, "ReadOnly")) @@
    ("FSBUPDATED" :> int2(19, 23, 1, 0, "ReadOnly")) @@
    ("FSBPATHCHANGE" :> int2(19, 24, 1, 0, "ReadOnly")) @@
    ("TRANSIENTONOFF" :> int2(19, 29, 1, 0, "ReadWrite")) @@
    ("VOICEACTIVITY" :> int2(19, 32, 1, 0, "ReadOnly")) @@
    ("STATNOISEONOFF_SR" :> int2(19, 33, 1, 0, "ReadWrite")) @@
    ("NONSTATNOISEONOFF_SR" :> int2(19, 34, 1, 0, "ReadWrite")) @@
    ("GAMMA_NS_SR" :> float(19, 35, F32(0, 128, 4194304), F32(0, 0, 0), "ReadWrite")) @@  \* max 3., min 0.
    ("GAMMA_NN_SR" :> float(19, 36, F32(0, 128, 4194304), F32(0, 0, 0), "ReadWrite")) @@  \* max 3., min 0.
    ("MIN_NS_SR" :> float(19, 37, F32(0, 127, 0), F32(0, 0, 0), "ReadWrite")) @@  \* max 1., min 0.
    ("MIN_NN_SR" :> float(19, 38, F32(0, 127, 0), F32(0, 0, 0), "ReadWrite")) @@  \* max 1., min 0.
    ("GAMMAVAD_SR" :> float(19, 39, F32(0, 136, 7995392), F32(0, 0, 0), "ReadWrite")) @@  \* max 1000., min 0.
    ("DOAANGLE" :> int_n(21, 0, 359, 0, "ReadOnly"))

\* Param::config
config(p) == MAP[p]

\* ParamConfig::access
access(param_config) == param_config.config.access

is_int(param_config) == param_config.variant \in {"IntMany", "IntFew"}

----------------------------------------------------------------------------
(* Values.                                                                 *)

\* Value::Int(Config<i32>, i32) and Value::Float(Config<f32>, f32)
ValueInt(c, i) == [tag |-> "Int", config |-> c, v |-> i]

ValueFloat(c, x) == [tag |-> "Float", config |-> c, v |-> x]

\* f32 inputs: every bound of the registry, its two neighbours in f32, the
\* bound minus and plus one, and the special values
FloatSamples ==
    { F32(0, 0, 0),  \* 0.0
      F32(1, 0, 1),  \* largest value below 0.0
      F32(0, 0, 1),  \* smallest value above 0.0
      F32(1, 127, 0),  \* 0.0 - 1.0
      F32(0, 127, 0),  \* 0.0 + 1.0
      F32(0, 97, 618591),  \* 1e-09
      F32(0, 97, 618590),  \* largest value below 1e-09
      F32(0, 97, 618592),  \* smallest value above 1e-09
      F32(0, 100, 2870391),  \* 1e-08
      F32(0, 100, 2870390),  \* largest value below 1e-08
      F32(0, 100, 2870392),  \* smallest value above 1e-08
      F32(0, 123, 5033165),  \* 0.1
      F32(0, 123, 5033164),  \* largest value below 0.1
      F32(0, 123, 5033166),  \* smallest value above 0.1
      F32(1, 126, 6710886),  \* 0.1 - 1.0
      F32(0, 127, 838861),  \* 0.1 + 1.0
      F32(0, 125, 0),  \* 0.25
      F32(0, 124, 8388607),  \* largest value below 0.25
      F32(0, 125, 1),  \* smallest value above 0.25
      F32(1, 126, 4194304),  \* 0.25 - 1.0
      F32(0, 127, 2097152),  \* 0.25 + 1.0
      F32(0, 126, 6710886),  \* 0.9
      F32(0, 126, 6710885),  \* largest value below 0.9
      F32(0, 126, 6710887),  \* smallest value above 0.9
      F32(1, 123, 5033168),  \* 0.9 - 1.0
      F32(0, 127, 7549747),  \* 0.9 + 1.0
      F32(0, 126, 8220836),  \* 0.99
      F32(0, 126, 8220835),  \* largest value below 0.99
      F32(0, 126, 8220837),  \* smallest value above 0.99
      F32(1, 120, 2348800),  \* 0.99 - 1.0
      F32(0, 127, 8304722),  \* 0.99 + 1.0
      F32(0, 126, 8388607),  \* largest value below 1.0
      F32(0, 127, 1),  \* smallest value above 1.0
      F32(0, 128, 0),  \* 1.0 + 1.0
      F32(0, 128, 4194304),  \* 3.0
      F32(0, 128, 4194303),  \* largest value below 3.0
      F32(0, 128, 4194305),  \* smallest value above 3.0
      F32(0, 129, 0),  \* 3.0 + 1.0
      F32(0, 129, 2097152),  \* 5.0
      F32(0, 129, 2097151),  \* largest value below 5.0
      F32(0, 129, 2097153),  \* smallest value above 5.0
      F32(0, 129, 4194304),  \* 5.0 + 1.0
      F32(0, 131, 0),  \* 16.0
      F32(0, 130, 8388607),  \* largest value below 16.0
      F32(0, 131, 1),  \* smallest value above 16.0
      F32(0, 130, 7340032),  \* 16.0 - 1.0
      F32(0, 131, 524288),  \* 16.0 + 1.0
      F32(0, 136, 7995392),  \* 1000.0
      F32(0, 136, 7995391),  \* largest value below 1000.0
      F32(0, 136, 7995393),  \* smallest value above 1000.0
      F32(0, 136, 7979008),  \* 1000.0 - 1.0
      F32(0, 136, 8011776),  \* 1000.0 + 1.0
      F32(1, 0, 0),  \* -0.0
      F32(0, 126, 0),  \* 0.5
      F32(0, 126, 3355443),  \* 0.7
      F32(0, 255, 0),  \* +inf
      F32(1, 255, 0),  \* -inf
      F32(0, 255, 4194304),  \* NaN
      F32(1, 255, 4194304),  \* NaN, sign bit set
      F32(0, 254, 8388607),  \* f32::MAX
      F32(1, 254, 8388607)  \* f32::MIN
    }

\* i32 inputs: the bounds of the integer parameters, their neighbours and the
\* extremes of the type
IntSamples == { MinI32, -1, 0, 1, 2, 3, 4, 358, 359, 360, MaxI32 }

\* the parameters whose Config a caller-built Value may carry
ValueConfigParams == { "AECFREEZEONOFF", "DOAANGLE", "AECNORM", "RT60" }

\* every Value the inputs range over
Values ==
    { ValueInt(config(q).config, i) :
        q \in { r \in ValueConfigParams : is_int(config(r)) }, i \in IntSamples }
    \cup
    { ValueFloat(config(q).config, x) :
        q \in { r \in ValueConfigParams : ~is_int(config(r)) }, x \in FloatSamples }

----------------------------------------------------------------------------
(* Decoding of the device's (mantissa, exponent) pair into an f32:         *)
(* (f64::from(mantissa) * f64::from(exponent).exp2()) as f32.  The f64     *)
(* product of an i32 and a power of two is exact unless it overflows, so   *)
(* the result is the exact product rounded once to f32, nearest-even.      *)

RECURSIVE Log2(_)
\* floor(log2(a)), a >= 1
Log2(a) == IF a < 2 THEN 0 ELSE 1 + Log2(a \div 2)

\* a / 2^k rounded to the nearest integer, ties to even (1 <= k <= 30)
RoundShift(a, k) ==
    LET q == a \div (2 ^ k)
        r == a % (2 ^ k)
        half == 2 ^ (k - 1)
    IN  IF r > half \/ (r = half /\ q % 2 = 1) THEN q + 1 ELSE q

\* the f32 nearest to (-1)^s * a * 2^e, for 1 <= a < 2^31
NearestF32(s, a, e) ==
    LET p == Log2(a)
        E == p + e
    IN  IF E > 127 THEN F32(s, 255, 0)
        ELSE IF E >= -126 THEN
            LET sig == IF p <= 23 THEN a * (2 ^ (23 - p)) ELSE RoundShift(a, p - 23)
                carry == sig = 16777216
                E2 == IF carry THEN E + 1 ELSE E
                sig2 == IF carry THEN 8388608 ELSE sig
            IN  IF E2 > 127 THEN F32(s, 255, 0) ELSE F32(s, E2 + 127, sig2 - 8388608)
        ELSE
            LET t == e + 149
                frac == IF t >= 0 THEN a * (2 ^ t)
                        ELSE IF -t > p + 1 THEN 0
                        ELSE IF -t = p + 1 THEN (IF a > 2 ^ p THEN 1 ELSE 0)
                        ELSE RoundShift(a, -t)
            IN  F32(s, frac \div 8388608, frac % 8388608)

\* mantissa * 2^0: the exponent is dropped
decode_float_no_exp2(mantissa, exponent, nan_sign) ==
    IF mantissa = 0 THEN F32(0, 0, 0)
    ELSE IF mantissa = MinI32 THEN NearestF32(1, 1073741824, 1)
    ELSE NearestF32(IF mantissa < 0 THEN 1 ELSE 0,
                    IF mantissa < 0 THEN -mantissa ELSE mantissa, 0)

\* nan_sign: the sign bit of the NaN that 0.0 * inf produces on the target
decode_float(mantissa, exponent, nan_sign) ==
    LET s == IF mantissa < 0 THEN 1 ELSE 0
    IN  IF exponent > 1023 THEN
            IF mantissa = 0 THEN F32(nan_sign, 255, 4194304) ELSE F32(s, 255, 0)
        ELSE IF mantissa = 0 THEN F32(0, 0, 0)
        ELSE IF exponent < -1074 THEN F32(s, 0, 0)
        ELSE IF mantissa = MinI32 THEN NearestF32(1, 1073741824, exponent + 1)
        ELSE NearestF32(s, IF mantissa < 0 THEN -mantissa ELSE mantissa, exponent)

\* (mantissa, exponent) pairs a device may answer with
ResponseSamples ==
    { <<15000, -10>>, <<0, 0>>, <<1, 0>>, <<-1, 0>>, <<1, 5>>, <<359, 0>>, <<360, 7>>,
      <<3, -2>>, <<-5, -1>>, <<16777215, 0>>, <<16777217, 0>>, <<16777219, 0>>,
      <<33554435, 0>>, <<-33554437, 3>>, <<MaxI32, 0>>, <<MinI32, 0>>,
      <<MaxI32, 96>>, <<MaxI32, 97>>, <<MinI32, 97>>, <<1, 127>>, <<1, 128>>,
      <<16777215, 104>>, <<1, -126>>, <<1, -127>>, <<1, -149>>, <<1, -150>>,
      <<3, -150>>, <<3, -151>>, <<16777215, -150>>, <<MaxI32, -157>>,
      <<MaxI32, -180>>, <<MaxI32, -181>>, <<MinI32, -181>>, <<-1, -1075>>,
      <<0, 1024>>, <<1, 1024>>, <<-1, MaxI32>>, <<7, MinI32>>, <<0, MinI32>> }

----------------------------------------------------------------------------
(* Results and errors.                                                     *)

NoValue == [tag |-> "None"]

NoError == [kind |-> "None"]

Ok(v) == [ok |-> TRUE, value |-> v, err |-> NoError]

Err(e) == [ok |-> FALSE, value |-> NoValue, err |-> e]

\* bail!("Parameter {:?} is read-only", param)
ReadOnlyError(param) == [kind |-> "ReadOnly", param |-> param]

\* bail!("Value must be of type int") / bail!("Value must be of type float")
TypeError(expected) == [kind |-> "TypeMismatch", expected |-> expected]

\* bail!("Value {value} is not in range {}..={}", config.min, config.max)
RangeError(value, min, max) ==
    [kind |-> "OutOfRange", value |-> value, min |-> min, max |-> max]

\* a rusb::Error passed on by `?`
UsbError(e) == [kind |-> "Usb", error |-> e]

----------------------------------------------------------------------------
(* The transport: libusb control transfers on the device handle.           *)

TIMEOUT == 2

\* outcomes of a control transfer that fails
UsbErrors == { "Timeout", "NoDevice" }

\* an 8-byte answer of the device: two little-endian i32
ResponseBytes(r) == to_le_bytes(r[1]) \o to_le_bytes(r[2])

NoData == << >>

\* what read_control can do: fail, or copy the first n bytes of the answer
\* (resp keeps the pair the device answered with, beside its bytes)
ReadOutcomes ==
    { [ok |-> FALSE, err |-> e, n |-> 0, data |-> NoData, resp |-> <<0, 0>>] :
        e \in UsbErrors }
    \cup
    { [ok |-> TRUE, err |-> "", n |-> n, data |-> ResponseBytes(r), resp |-> r] :
        n \in 0 .. 8, r \in ResponseSamples }

\* what write_control can do: fail, or report the number of bytes sent
WriteOutcomes ==
    { [ok |-> FALSE, err |-> e, n |-> 0, data |-> NoData, resp |-> <<0, 0>>] :
        e \in UsbErrors }
    \cup
    { [ok |-> TRUE, err |-> "", n |-> n, data |-> NoData, resp |-> <<0, 0>>] :
        n \in {0, 12} }

\* rusb::request_type
request_type(direction, type, recipient) ==
    [direction |-> direction, type |-> type, recipient |-> recipient]

\* one call of read_control / write_control, as seen on the handle
Transfer(req_type, request, value, index, data, len, io) ==
    [request_type |-> req_type, request |-> request, value |-> value, index |-> index,
     data |-> data, len |-> len, timeout |-> TIMEOUT, done |-> io.ok]

\* the transfer is issued again after a failure
control_retry(xfer, io) == IF io.ok THEN << xfer >> ELSE << xfer, xfer >>

\* self.handle.read_control(..)? / self.handle.write_control(..)?: one attempt
control(xfer, io) == << xfer >>

----------------------------------------------------------------------------
(* ReSpeakerDevice::read                                                   *)

\* the flag for integer parameters is left out
read_cmd_no_flag(int, cmd) == BitOr(128, cmd)

\* let mut cmd = 0x80 | cmd; if is_int { cmd |= 0x40; }
read_cmd(int, cmd) ==
    LET c == BitOr(128, cmd) IN IF int THEN BitOr(c, 64) ELSE c

\* the buffer [0u8; 8] after a read_control that transferred io.n bytes
buffer_after(io) == [i \in 1 .. 8 |-> IF i <= io.n THEN io.data[i] ELSE 0]

read_result(param_config, io, nan_sign) ==
    LET int == is_int(param_config)
        c == param_config.config
        xfer == Transfer(request_type("In", "Vendor", "Device"), 0,
                         read_cmd(int, c.cmd), c.id, NoData, 8, io)
        buffer == buffer_after(io)
        response == << from_le_bytes(SubSeq(buffer, 1, 4)),
                       from_le_bytes(SubSeq(buffer, 5, 8)) >>
    IN  IF ~io.ok THEN [ret |-> Err(UsbError(io.err)), transfers |-> control(xfer, io)]
        ELSE IF int THEN
            [ret |-> Ok(ValueInt(c, response[1])), transfers |-> control(xfer, io)]
        ELSE
            [ret |-> Ok(ValueFloat(c, decode_float(response[1], response[2], nan_sign))),
             transfers |-> control(xfer, io)]

read(p, io, nan_sign) ==
    LET r == read_result(config(p), io, nan_sign)
    IN  /\ call' = [op |-> "read", param |-> p, value |-> NoValue, io |-> io]
        /\ ret' = r.ret
        /\ transfers' = r.transfers

----------------------------------------------------------------------------
(* ReSpeakerDevice::write                                                  *)

\* `x as i32` on an f32: truncation toward zero, saturating, NaN to 0
F32AsI32(x) ==
    LET E == x.e - 127
        sig == 8388608 + x.f
        mag == IF E >= 23 THEN sig * (2 ^ (E - 23)) ELSE sig \div (2 ^ (23 - E))
    IN  IF IsNaN(x) \/ E < 0 THEN 0
        ELSE IF E >= 31 THEN (IF x.s = 1 THEN MinI32 ELSE MaxI32)
        ELSE IF x.s = 1 THEN -mag ELSE mag

\* a Float is cast to i32 instead of being rejected
int_value_cast(value) ==
    IF value.tag = "Int" THEN [ok |-> TRUE, v |-> value.v, err |-> NoError]
    ELSE [ok |-> TRUE, v |-> F32AsI32(value.v), err |-> NoError]

\* match value { Value::Int(_, i) => *i, Value::Float(_, _) => bail!(..) }
int_value(value) ==
    IF value.tag = "Int" THEN [ok |-> TRUE, v |-> value.v, err |-> NoError]
    ELSE [ok |-> FALSE, v |-> 0, err |-> TypeError("int")]

\* match value { Value::Int(_, _) => bail!(..), Value::Float(_, f) => *f }
float_value(value) ==
    IF value.tag = "Float" THEN [ok |-> TRUE, v |-> value.v, err |-> NoError]
    ELSE [ok |-> FALSE, v |-> F32(0, 0, 0), err |-> TypeError("float")]

\* the command word of a read request is sent instead of the plain cmd
cmd_bytes_read_flags(int, cmd) == to_le_bytes(read_cmd(int, cmd))

\* i32::from(cmd).to_le_bytes()
cmd_bytes(int, cmd) == to_le_bytes(cmd)

NoBytes == [cmd_bytes |-> << >>, value_bytes |-> << >>, type_bytes |-> << >>]

\* the match that validates the value and yields (cmd_bytes, value_bytes, type_bytes)
write_bytes(param_config, value) ==
    LET c == param_config.config
        i == int_value(value)
        f == float_value(value)
    IN  IF is_int(param_config) THEN
            IF ~i.ok THEN [ok |-> FALSE, err |-> i.err, bytes |-> NoBytes]
            ELSE IF i.v < c.min \/ i.v > c.max THEN
                [ok |-> FALSE, err |-> RangeError(i.v, c.min, c.max), bytes |-> NoBytes]
            ELSE
                [ok |-> TRUE, err |-> NoError,
                 bytes |-> [cmd_bytes |-> cmd_bytes(TRUE, c.cmd),
                            value_bytes |-> to_le_bytes(i.v),
                            type_bytes |-> to_le_bytes(1)]]
        ELSE
            IF ~f.ok THEN [ok |-> FALSE, err |-> f.err, bytes |-> NoBytes]
            ELSE IF F32Lt(f.v, c.min) \/ F32Lt(c.max, f.v) THEN
                [ok |-> FALSE, err |-> RangeError(f.v, c.min, c.max), bytes |-> NoBytes]
            ELSE
                [ok |-> TRUE, err |-> NoError,
                 bytes |-> [cmd_bytes |-> cmd_bytes(FALSE, c.cmd),
                            value_bytes |-> f32_to_le_bytes(f.v),
                            type_bytes |-> to_le_bytes(0)]]

\* the payload Vec: cmd_bytes, value_bytes, type_bytes appended in this order
payload_of(b) == b.cmd_bytes \o b.value_bytes \o b.type_bytes

\* the access check is missing
read_only_never(a) == FALSE

\* if access == Access::ReadOnly { bail!(..) }
read_only(a) == a = "ReadOnly"

\* the write_control call and the Result of write after it
write_transfer(param_config, b, io) ==
    LET xfer == Transfer(request_type("Out", "Vendor", "Device"), 0, 0,
                         param_config.config.id, payload_of(b), 12, io)
    IN  [ret |-> IF io.ok THEN Ok(NoValue) ELSE Err(UsbError(io.err)),
         transfers |-> control(xfer, io)]

\* the value is validated first and the access is checked last
write_result_access_last(param, value, io) ==
    LET param_config == config(param)
        b == write_bytes(param_config, value)
    IN  IF ~b.ok THEN [ret |-> Err(b.err), transfers |-> << >>]
        ELSE IF read_only(access(param_config)) THEN
            [ret |-> Err(ReadOnlyError(param)), transfers |-> << >>]
        ELSE write_transfer(param_config, b.bytes, io)

write_result(param, value, io) ==
    LET param_config == config(param)
        b == write_bytes(param_config, value)
    IN  IF read_only(access(param_config)) THEN
            [ret |-> Err(ReadOnlyError(param)), transfers |-> << >>]
        ELSE IF ~b.ok THEN [ret |-> Err(b.err), transfers |-> << >>]
        ELSE write_transfer(param_config, b.bytes, io)

write(p, value, io) ==
    LET r == write_result(p, value, io)
    IN  /\ call' = [op |-> "write", param |-> p, value |-> value, io |-> io]
        /\ ret' = r.ret
        /\ transfers' = r.transfers

----------------------------------------------------------------------------
(* The device session as a state machine: a caller issues one read or     *)
(* write at a time, with any argument and any behaviour of the transport, *)
(* and takes its Result before the next call.                              *)

NoIo == [ok |-> FALSE, err |-> "", n |-> 0, data |-> NoData, resp |-> <<0, 0>>]

NoCall == [op |-> "none", param |-> "", value |-> NoValue, io |-> NoIo]

\* no command runs
NoCli == [at |-> "none"]

NoRt == [stage |-> "none", param |-> "", v |-> 0, exponent |-> 0,
         value_bytes |-> << >>, decoded |-> Ok(NoValue)]

\* no UI is running: the session is used directly (main.rs)
NoUi ==
    /\ params = << >>
    /\ previous_params = << >>
    /\ visited = { }
    /\ state_lock = "none"
    /\ device_lock = "none"
    /\ device = [index |-> 0, handle |-> 0, interface_number |-> 0, claimed |-> FALSE]
    /\ ui = [at |-> "none"]
    /\ refresh = [at |-> "none"]
    /\ shutdown = "empty"
    /\ hist = << >>

Init ==
    /\ call = NoCall
    /\ ret = Ok(NoValue)
    /\ transfers = << >>
    /\ rt = NoRt
    /\ NoUi
    /\ cli = NoCli

\* a caller reads a parameter
Read ==
    /\ call.op = "none"
    /\ \E p \in ParamSet, io \in ReadOutcomes, nan_sign \in {0, 1} : read(p, io, nan_sign)
    /\ UNCHANGED << rt, ui_vars, cli >>

\* a caller writes a value to a parameter
Write ==
    /\ call.op = "none"
    /\ \E p \in ParamSet, value \in Values, io \in WriteOutcomes : write(p, value, io)
    /\ UNCHANGED << rt, ui_vars, cli >>

\* the caller has taken the Result; the session is ready for the next call
Return ==
    /\ call.op # "none"
    /\ call' = NoCall
    /\ ret' = Ok(NoValue)
    /\ transfers' = << >>
    /\ UNCHANGED << rt, ui_vars, cli >>

Next == Read \/ Write \/ Return

Spec == Init /\ [][Next]_vars

----------------------------------------------------------------------------
(* The integer path of the codec taken alone: a value goes through the     *)
(* encoding match of write, and the four value bytes come back as the     *)
(* mantissa of a read response for the same parameter.                     *)

IntParams == { p \in ParamSet : is_int(config(p)) }

\* exponent words a device may send along with an integer mantissa
RtExponents == { 0, -10, MaxI32 }

RtInit ==
    /\ call = NoCall
    /\ ret = Ok(NoValue)
    /\ transfers = << >>
    /\ NoUi
    /\ cli = NoCli
    /\ rt \in UNION { { [stage |-> "input", param |-> p, v |-> v, exponent |-> e,
                          value_bytes |-> << >>, decoded |-> Ok(NoValue)] :
                            v \in config(p).config.min .. config(p).config.max,
                            e \in RtExponents } : p \in IntParams }

\* the encoding match of write, applied to Int(v)
RtEncode ==
    /\ rt.stage = "input"
    /\ LET c == config(rt.param)
           b == write_bytes(c, ValueInt(c.config, rt.v))
       IN  /\ b.ok
           /\ rt' = [rt EXCEPT !.stage = "encoded", !.value_bytes = b.bytes.value_bytes]
    /\ UNCHANGED << call, ret, transfers, ui_vars, cli >>

\* read, answered with these bytes as the mantissa
RtDecode ==
    /\ rt.stage = "encoded"
    /\ LET io == [ok |-> TRUE, err |-> "", n |-> 8,
                  data |-> rt.value_bytes \o to_le_bytes(rt.exponent),
                  resp |-> << rt.v, rt.exponent >>]
       IN  /\ read(rt.param, io, 0)
           /\ rt' = [rt EXCEPT !.stage = "decoded", !.decoded = ret']
    /\ UNCHANGED << ui_vars, cli >>

RtNext == RtEncode \/ RtDecode

RtSpec == RtInit /\ [][RtNext]_vars

----------------------------------------------------------------------------
(* Properties of write.                                                    *)

IsWrite == call.op = "write"

IsRead == call.op = "read"

\* the definition of the parameter of the call
CallConfig == config(call.param).config

CallIsInt == config(call.param).variant \in {"IntMany", "IntFew"}

CallReadOnly == CallConfig.access = "ReadOnly"

\* the value's tag is the one of the parameter's domain
TagMatches == call.value.tag = (IF CallIsInt THEN "Int" ELSE "Float")

\* the value is below min or above max
BelowOrAbove ==
    IF call.value.tag = "Int"
    THEN call.value.v < CallConfig.min \/ call.value.v > CallConfig.max
    ELSE F32Lt(call.value.v, CallConfig.min) \/ F32Lt(CallConfig.max, call.value.v)

\* min <= value <= max
InBounds ==
    IF call.value.tag = "Int"
    THEN CallConfig.min <= call.value.v /\ call.value.v <= CallConfig.max
    ELSE F32Le(CallConfig.min, call.value.v) /\ F32Le(call.value.v, CallConfig.max)

\* the write was rejected before any transfer
Rejected(kind) == ~ret.ok /\ ret.err.kind = kind /\ transfers = << >>

\* the write got to the transport: no validation error
Passed == Len(transfers) >= 1 /\ ret.err.kind \in {"None", "Usb"}

\* C1 as stated: the checks are made in the order type, range, access, and the
\* first failing one is reported.
C1_TypeRangeAccess ==
    IsWrite =>
        IF ~TagMatches THEN Rejected("TypeMismatch")
        ELSE IF BelowOrAbove THEN Rejected("OutOfRange")
        ELSE IF CallReadOnly THEN Rejected("ReadOnly")
        ELSE Passed

\* C1 (amended): write checks the access first, then the value's tag, then the
\* range (value < min or value > max), and reports the first check that fails: a
\* ReadOnly parameter rejects every value as read-only, whatever its type or size;
\* a ReadWrite parameter rejects a value of the other type with a type mismatch
\* and a value of its type below min or above max as out of range.
C1_AccessTypeRange ==
    IsWrite =>
        IF CallReadOnly THEN Rejected("ReadOnly")
        ELSE IF ~TagMatches THEN Rejected("TypeMismatch")
        ELSE IF BelowOrAbove THEN Rejected("OutOfRange")
        ELSE Passed

\* a Float written to a ReadOnly integer parameter is rejected as read-only
C1_Witness ==
    /\ IsWrite
    /\ CallReadOnly
    /\ CallIsInt
    /\ call.value.tag = "Float"
    /\ Rejected("ReadOnly")

\* C2: a write to a ReadOnly parameter fails with the read-only error for every
\* value, and no transfer is issued.
C2_ReadOnlyRejected ==
    (IsWrite /\ CallReadOnly) =>
        /\ ret = Err(ReadOnlyError(call.param))
        /\ transfers = << >>

\* a well-typed value within the bounds is written to the ReadOnly RT60
C2_Witness ==
    /\ IsWrite
    /\ call.param = "RT60"
    /\ TagMatches
    /\ InBounds
    /\ Rejected("ReadOnly")

\* C3: a ReadWrite parameter takes a value of its type exactly when it lies in
\* [min, max]: such a value reaches the transport, and every other value fails
\* with the out-of-range error that carries this parameter's min and max.
C3_RangeBoundary ==
    (IsWrite /\ ~CallReadOnly /\ TagMatches) =>
        IF InBounds THEN Passed /\ Len(transfers) = 1
        ELSE /\ Rejected("OutOfRange")
             /\ ret.err = RangeError(call.value.v, CallConfig.min, CallConfig.max)

\* C4 as stated: a Float written to an integer parameter fails with the type
\* mismatch, whatever the parameter.
C4_FloatToIntIsTypeMismatch ==
    (IsWrite /\ CallIsInt /\ call.value.tag = "Float") => Rejected("TypeMismatch")

\* C4 (amended): a Float written to a ReadWrite integer parameter fails with the
\* type mismatch, and written to a ReadOnly integer parameter with the read-only
\* error; it never fails as out of range and never reaches the transport,
\* whatever its numeric value.
C4_FloatToIntNeverRange ==
    (IsWrite /\ CallIsInt /\ call.value.tag = "Float") =>
        /\ ret = (IF CallReadOnly THEN Err(ReadOnlyError(call.param))
                  ELSE Err(TypeError("int")))
        /\ ret.err.kind # "OutOfRange"
        /\ transfers = << >>

\* 1000.0 written to the ReadWrite HPFONOFF (0..3) is a type mismatch
C4_Witness ==
    /\ IsWrite
    /\ call.param = "HPFONOFF"
    /\ call.value.tag = "Float"
    /\ call.value.v = F32(0, 136, 7995392)
    /\ Rejected("TypeMismatch")

----------------------------------------------------------------------------
(* Properties of the transport use.                                        *)

\* C5: write issues one control write when no check rejects the value and none
\* otherwise; read issues one control read; a failing transfer is returned as
\* the call's error and is not attempted again.
C5_OneAttempt ==
    /\ IsWrite =>
        /\ Len(transfers) = (IF ~CallReadOnly /\ TagMatches /\ ~BelowOrAbove THEN 1 ELSE 0)
        /\ Len(transfers) = (IF ret.err.kind \in {"ReadOnly", "TypeMismatch", "OutOfRange"}
                             THEN 0 ELSE 1)
        /\ \A i \in DOMAIN transfers : transfers[i].request_type.direction = "Out"
    /\ IsRead =>
        /\ Len(transfers) = 1
        /\ transfers[1].request_type.direction = "In"
    /\ (call.op # "none" /\ Len(transfers) = 1) =>
        IF call.io.ok THEN ret.ok ELSE ret = Err(UsbError(call.io.err))

\* a write whose only transfer timed out
C5_Witness ==
    /\ IsWrite
    /\ Len(transfers) = 1
    /\ ~transfers[1].done
    /\ ret = Err(UsbError("Timeout"))

\* bit k of the unsigned integer n
Bit(n, k) == (n \div (2 ^ k)) % 2

\* C6: the command word of a read request is 0x80 | cmd, with bit 0x40 set exactly
\* for the integer parameters, and the request is addressed to the parameter's id.
C6_ReadCommand ==
    IsRead =>
        LET x == transfers[1]
        IN  /\ \A k \in 0 .. 15 :
                Bit(x.value, k) = 1 <=>
                    \/ Bit(CallConfig.cmd, k) = 1
                    \/ k = 7
                    \/ (k = 6 /\ CallIsInt)
            /\ Bit(x.value, 6) = (IF CallIsInt THEN 1 ELSE 0)
            /\ x.value < 65536
            /\ x.index = CallConfig.id
            /\ x.request = 0
            /\ x.request_type = [direction |-> "In", type |-> "Vendor", recipient |-> "Device"]
            /\ x.len = 8

\* a read of the integer HPFONOFF (id 18, cmd 27): 0x80 | 0x40 | 27 = 219
C6_Witness ==
    /\ IsRead
    /\ call.param = "HPFONOFF"
    /\ transfers[1].value = 219
    /\ transfers[1].index = 18

\* C7: the payload of a write that passes validation is 12 bytes: the plain cmd
\* as a little-endian i32, the value's four bytes little-endian (the i32, or the
\* f32 bit pattern), and the type tag as a little-endian i32, 1 for an integer
\* parameter and 0 for a float parameter.
C7_WritePayload ==
    (IsWrite /\ Len(transfers) >= 1) =>
        LET x == transfers[1]
            d == x.data
            v == call.value.v
        IN  /\ Len(d) = 12
            /\ \A i \in 1 .. 12 : d[i] \in 0 .. 255
            /\ d[1] + 256 * d[2] = CallConfig.cmd
            /\ d[3] = 0 /\ d[4] = 0
            /\ IF CallIsInt
               THEN /\ v >= 0
                    /\ d[5] + 256 * d[6] + 65536 * d[7] = v % 16777216
                    /\ d[8] = v \div 16777216
                    /\ SubSeq(d, 9, 12) = << 1, 0, 0, 0 >>
               ELSE /\ d[5] + 256 * d[6] + 65536 * (d[7] % 128) = v.f
                    /\ (d[7] \div 128) + 2 * (d[8] % 128) = v.e
                    /\ d[8] \div 128 = v.s
                    /\ SubSeq(d, 9, 12) = << 0, 0, 0, 0 >>
            /\ x.index = CallConfig.id
            /\ x.request = 0
            /\ x.value = 0
            /\ x.request_type = [direction |-> "Out", type |-> "Vendor", recipient |-> "Device"]

\* 0.7 (0x3F333333) written to AECNORM (18, 19)
C7_Witness ==
    /\ IsWrite
    /\ call.param = "AECNORM"
    /\ call.value.tag = "Float"
    /\ call.value.v = F32(0, 126, 3355443)
    /\ Len(transfers) = 1
    /\ transfers[1].data = << 19, 0, 0, 0, 51, 51, 51, 63, 0, 0, 0, 0 >>

----------------------------------------------------------------------------
(* Properties of the decoding.                                             *)

\* |mantissa| and the exponent that goes with it (2^31 is kept as 2^30 * 2)
Magnitude(m) == IF m = MinI32 THEN 1073741824 ELSE IF m < 0 THEN -m ELSE m

ExponentOf(m, e) == IF m = MinI32 THEN e + 1 ELSE e

RECURSIVE TrailingZeros(_)
TrailingZeros(a) == IF a % 2 = 1 THEN 0 ELSE 1 + TrailingZeros(a \div 2)

\* a * 2^e is at or above 2^128 - 2^103, where rounding to f32 gives infinity
Overflows(a, e) ==
    LET p == Log2(a)
    IN  \/ p + e > 127
        \/ p + e = 127 /\ p >= 24 /\ a \div (2 ^ (p - 24)) = 33554431

\* a * 2^e is a normal f32: at most 24 significant bits, exponent in range
Representable(a, e) ==
    /\ Log2(a) - TrailingZeros(a) <= 23
    /\ Log2(a) + e >= -126
    /\ Log2(a) + e <= 127

\* the finite f32 x has the magnitude a * 2^e exactly
ExactlyEqual(x, a, e) ==
    LET p == Log2(a)
    IN  /\ x.e = p + e + 127
        /\ IF p <= 23 THEN 8388608 + x.f = a * (2 ^ (23 - p))
           ELSE (8388608 + x.f) * (2 ^ (p - 23)) = a

\* the finite f32 x is within half a unit of its last place of a * 2^e, and on a
\* tie its last bit is 0
WithinHalfUlp(x, a, e) ==
    LET sig == IF x.e = 0 THEN x.f ELSE 8388608 + x.f
        q == IF x.e = 0 THEN -149 ELSE x.e - 150
        d == q - e
        fl == IF d >= 31 THEN 0 ELSE a \div (2 ^ d)
        r == IF d >= 31 THEN a ELSE a % (2 ^ d)
        below == d > 31 \/ r < 2 ^ (d - 1)
        above == d <= 31 /\ r > 2 ^ (d - 1)
    IN  IF d <= 0 THEN -d <= 23 /\ sig % (2 ^ (-d)) = 0 /\ sig \div (2 ^ (-d)) = a
        ELSE \/ sig = fl /\ below
             \/ sig = fl + 1 /\ above
             \/ sig \in {fl, fl + 1} /\ ~below /\ ~above /\ sig % 2 = 0

\* x is mantissa * 2^exponent, computed in f64 and narrowed to f32
DenotesProduct(x, m, e) ==
    LET a == Magnitude(m)
        ex == ExponentOf(m, e)
    IN  IF m = 0 THEN (IF e > 1023 THEN IsNaN(x) ELSE x = F32(0, 0, 0))
        ELSE /\ x.s = (IF m < 0 THEN 1 ELSE 0)
             /\ ~IsNaN(x)
             /\ IF e > 1023 THEN IsInf(x)
                ELSE IF e < -1074 THEN x.e = 0 /\ x.f = 0
                ELSE /\ IsInf(x) <=> Overflows(a, ex)
                     /\ IsFinite(x) => WithinHalfUlp(x, a, ex)
                     /\ Representable(a, ex) => ExactlyEqual(x, a, ex)

\* the read got all 8 bytes of the device's answer
FullResponse == IsRead /\ call.io.ok /\ call.io.n = 8

\* C8: a full response (mantissa, exponent) decodes, for a float parameter, to the
\* Float mantissa * 2^exponent (the f64 product narrowed to f32: exact when the
\* product is an f32, else the nearest f32), so (15000, -10) gives 15000/1024;
\* for an integer parameter it decodes to the Int mantissa, whatever the exponent.
C8_Decode ==
    FullResponse =>
        LET m == call.io.resp[1]
            e == call.io.resp[2]
        IN  IF CallIsInt THEN ret = Ok(ValueInt(CallConfig, m))
            ELSE /\ ret.ok
                 /\ ret.value.tag = "Float"
                 /\ ret.value.config = CallConfig
                 /\ DenotesProduct(ret.value.v, m, e)
                 /\ (m = 15000 /\ e = -10) => ret.value.v = F32(0, 130, 6971392)

\* (15000, -10) read from the float AGCGAIN gives 14.6484375 (0x416A6000)
C8_Witness ==
    /\ FullResponse
    /\ call.param = "AGCGAIN"
    /\ call.io.resp = << 15000, -10 >>
    /\ ret = Ok(ValueFloat(CallConfig, F32(0, 130, 6971392)))

\* C9: for an integer parameter and v in [min, max], the four value bytes of the
\* write encoding of v, read back as the mantissa of a response for the same
\* parameter, decode to Int(v).
C9_IntRoundTrip ==
    /\ rt.stage \in {"encoded", "decoded"} => Len(rt.value_bytes) = 4
    /\ rt.stage = "decoded" =>
        rt.decoded = Ok(ValueInt(config(rt.param).config, rt.v))

\* 359 went through the encoding and the decoding of DOAANGLE
C9_Witness ==
    /\ rt.stage = "decoded"
    /\ rt.param = "DOAANGLE"
    /\ rt.v = 359
    /\ rt.value_bytes = << 103, 1, 0, 0 >>
    /\ rt.decoded.ok
    /\ rt.decoded.value.v = 359

\* C10: a control read that returns fewer than 8 bytes makes read fail; no Value
\* is decoded from the partly filled buffer.
C10_ShortReadFails ==
    (IsRead /\ call.io.ok /\ call.io.n < 8) => (~ret.ok /\ ret.value = NoValue)


----------------------------------------------------------------------------
(* The UI (ui.rs): a UI thread that renders the parameter grid, lets the   *)
(* user edit values and reset the device, and writes edits back; and a     *)
(* refresh thread that re-reads the read-only parameters every 50 ms.      *)
(* Both share the device and the UI state, each behind its own Mutex.      *)

\* a key with the type before the access
sort_key_type_first(p) ==
    << IF is_int(config(p)) THEN 0 ELSE 1,
       IF access(config(p)) = "ReadOnly" THEN 1 ELSE 0 >>

\* the key of Param::sorted
sort_key(p) ==
    << IF access(config(p)) = "ReadOnly" THEN 1 ELSE 0,
       IF is_int(config(p)) THEN 0 ELSE 1 >>

KeyLe(a, b) == a[1] < b[1] \/ (a[1] = b[1] /\ a[2] <= b[2])

\* a stable insertion of x into a sequence sorted by key
RECURSIVE insert_by_key(_, _)
insert_by_key(s, x) ==
    IF s = << >> THEN << x >>
    ELSE IF KeyLe(sort_key(s[Len(s)]), sort_key(x)) THEN Append(s, x)
    ELSE Append(insert_by_key(SubSeq(s, 1, Len(s) - 1), x), s[Len(s)])

RECURSIVE sort_by_key(_)
sort_by_key(s) ==
    IF s = << >> THEN << >>
    ELSE insert_by_key(sort_by_key(SubSeq(s, 1, Len(s) - 1)), s[Len(s)])

\* the sorted parameters with the first one lost
sorted_tail == Tail(sort_by_key(Param))

\* Param::sorted
sorted == sort_by_key(Param)

\* the parameters the UI is checked with: one of each access and type; of
\* the two ReadOnly ones the float is declared before the integer
UiParams == { "AECFREEZEONOFF", "AECNORM", "RT60", "SPEECHDETECTED" }

\* the sorted parameters without the last one
UiSortedButLast == SubSeq(SelectSeq(sorted, LAMBDA p : p \in UiParams), 1, 3)

\* ParamKind::sorted(), for the parameters of the check
UiSorted == SelectSeq(sorted, LAMBDA p : p \in UiParams)

\* every parameter is refreshed
AllSorted == UiSorted

\* the filter of the refresh thread
ReadOnlySorted == SelectSeq(UiSorted, LAMBDA p : access(config(p)) = "ReadOnly")

\* answers of the device to a read of p: 0 and 1, or 0.25 and the pair
\* (0, 1024), which read turns into 0.0 * inf = NaN
UiResponses(p) == IF is_int(config(p)) THEN { <<0, 0>>, <<1, 0>> }
                  ELSE { <<1, -2>>, <<0, 1024>> }

\* the answer of a device whose registers do not change: 0, or 0.25
SteadyResponse(p) == IF is_int(config(p)) THEN <<0, 0>> ELSE <<1, -2>>

\* a transport whose calls may fail, before a device that may answer anything
AnyTransport == [faults |-> TRUE, steady |-> FALSE]

\* a transport that does not fail, before a device whose registers do not change
SteadyTransport == [faults |-> FALSE, steady |-> TRUE]

TimedOut == [ok |-> FALSE, err |-> "Timeout", n |-> 0, data |-> NoData, resp |-> <<0, 0>>]

\* outcomes of the control transfer of a read of p over transport t
UiReadOutcomes(p, t) ==
    { [ok |-> TRUE, err |-> "", n |-> 8, data |-> ResponseBytes(r), resp |-> r] :
        r \in IF t.steady THEN { SteadyResponse(p) } ELSE UiResponses(p) }
    \cup
    (IF t.faults THEN { TimedOut } ELSE { })

\* outcomes of the control transfer of a write over transport t
UiWriteOutcomes(t) ==
    { [ok |-> TRUE, err |-> "", n |-> 12, data |-> NoData, resp |-> <<0, 0>>] }
    \cup
    (IF t.faults THEN { TimedOut } ELSE { })

\* the values a slider or a combo box can set p to
UiEdits(p) ==
    LET c == config(p).config
    IN  IF is_int(config(p)) THEN { ValueInt(c, c.min), ValueInt(c, c.max) }
        ELSE { ValueFloat(c, c.min), ValueFloat(c, F32(0, 126, 0)) }

\* a map without entries
EmptyMap == [p \in UiParams |-> NoValue]

\* Mutex::lock returns once no thread owns the mutex
lock_always(m) == TRUE

lock(m) == m = "none"


----------------------------------------------------------------------------
(* ReSpeakerDevice::reset                                                  *)

XMOS_DFU_RESETDEVICE == 240

\* the number of the DFU interface (class 0xfe, sub class 0x01) of the device
DfuInterface == 3

\* the session may be opened again this many times
MaxHandle == 2

\* no device session
NoDevice == [index |-> 0, handle |-> 0, interface_number |-> 0, claimed |-> FALSE]

\* the statements of reset with the release moved to the front
reset_steps_release_first ==
    << "release_interface", "claim_interface", "write_control", "sleep", "open" >>

\* the statements of reset that act on the handle or the thread, in order
reset_steps == << "claim_interface", "write_control", "release_interface", "sleep", "open" >>

\* the control transfer of reset
reset_transfer(d, ok) ==
    [request_type |-> request_type("Out", "Class", "Interface"),
     request |-> XMOS_DFU_RESETDEVICE, value |-> 0, index |-> d.interface_number,
     data |-> NoData, len |-> 0, timeout |-> TIMEOUT, done |-> ok]

NoTransfer == [request |-> -1]

\* one executed statement of reset, as recorded in the history
ResetOp(op, d, ok) ==
    [op |-> op, ok |-> ok, handle |-> d.handle, arg |-> d.interface_number,
     xfer |-> IF op = "write_control" THEN reset_transfer(d, ok) ELSE NoTransfer]

\* the session after statement op of reset succeeded
reset_effect(op, d) ==
    CASE op = "claim_interface" -> [d EXCEPT !.claimed = TRUE]
      [] op = "release_interface" -> [d EXCEPT !.claimed = FALSE]
      [] op = "open" -> [index |-> d.index, handle |-> d.handle + 1,
                         interface_number |-> DfuInterface, claimed |-> FALSE]
      [] OTHER -> d

\* thread::sleep cannot fail; the other statements end reset with `?`
can_fail(op) == op # "sleep"

----------------------------------------------------------------------------
(* The history kept for the properties.                                    *)

NoHist ==
    [writes |-> << >>,       \* the calls of write of the running write-back pass
     sent |-> EmptyMap,      \* per parameter, the value last written with success
                             \* if the cached value has not changed since
     edits |-> [p \in UiParams |-> "none"],
                             \* per parameter: "pending" from an edit to the write
                             \* of the parameter, "dropped" if a re-read replaced
                             \* the edited value before any write
     reset |-> << >>,        \* the statements executed by the running reset
     before |-> NoDevice,    \* the session when the running reset began
     cache |-> "live"]       \* "stale" from the re-open of a reset to the next
                             \* replacement of the maps; "reread" from that
                             \* replacement to the end of its frame

\* the cache takes the values of map m: a successful write of a parameter
\* whose cached value changes is no longer the latest word on it
sent_after(m) ==
    [p \in UiParams |-> IF m[p] = params[p] THEN hist.sent[p] ELSE NoValue]

\* the edits of which update_all_params replaces the value
edits_replaced ==
    [p \in UiParams |-> IF hist.edits[p] = "pending" THEN "dropped" ELSE hist.edits[p]]

\* the frame is over
edits_after_frame ==
    [p \in UiParams |-> IF hist.edits[p] = "dropped" THEN "none" ELSE hist.edits[p]]

UiIdle == [at |-> "idle", i |-> 0, p |-> "", any_changes |-> FALSE, new |-> EmptyMap,
           after |-> "none"]

\* UiState::new: both maps empty, update_all_params about to read
UiInit ==
    /\ call = NoCall
    /\ ret = Ok(NoValue)
    /\ transfers = << >>
    /\ rt = NoRt
    /\ params = EmptyMap
    /\ previous_params = EmptyMap
    /\ visited = { }
    /\ state_lock = "none"
    /\ device_lock = "none"
    /\ device = [index |-> 0, handle |-> 1, interface_number |-> DfuInterface,
                 claimed |-> FALSE]
    /\ ui = [UiIdle EXCEPT !.at = "uap", !.i = 1, !.after = "spawn"]
    /\ refresh = [at |-> "none", i |-> 0]
    /\ shutdown = "empty"
    /\ hist = NoHist
    /\ cli = NoCli

dev_vars == << call, ret, transfers, rt, cli >>

----------------------------------------------------------------------------
(* UiState::update_all_params                                              *)

\* the device lock is taken for the read of the next parameter
UapLock ==
    /\ ui.at = "uap"
    /\ ui.i <= Len(UiSorted)
    /\ lock(device_lock)
    /\ device_lock' = "ui"
    /\ ui' = [ui EXCEPT !.at = "uap_io"]
    /\ UNCHANGED << dev_vars, params, previous_params, visited, state_lock, device,
                    refresh, shutdown, hist >>

\* the update failed: UiState::new fails and no UI runs, or the frame ends
uap_failed == IF ui.after = "spawn" THEN [UiIdle EXCEPT !.at = "send"] ELSE UiIdle

\* device.read(&p)?, and the lock is dropped
UapRead(t) ==
    /\ ui.at = "uap_io"
    /\ \E io \in UiReadOutcomes(UiSorted[ui.i], t) :
         LET p == UiSorted[ui.i]
             r == read_result(config(p), io, 0).ret
         IN  ui' = IF r.ok
                   THEN [ui EXCEPT !.at = "uap", !.i = @ + 1, !.new[p] = r.value]
                   ELSE uap_failed
    /\ device_lock' = "none"
    /\ UNCHANGED << dev_vars, params, previous_params, visited, state_lock, device,
                    refresh, shutdown, hist >>

\* the snapshot is left as it is
uap_previous_kept(m) == previous_params

\* state.previous_params = params
uap_previous(m) == m

\* both maps are replaced under the state lock; new() then spawns the
\* refresh thread, the reset frame goes on to the write-back pass
UapAdopt ==
    /\ ui.at = "uap"
    /\ ui.i > Len(UiSorted)
    /\ lock(state_lock)
    /\ params' = ui.new
    /\ previous_params' = uap_previous(ui.new)
    /\ hist' = [hist EXCEPT !.sent = sent_after(ui.new), !.edits = edits_replaced,
                            !.cache = IF ui.after = "diff" THEN "reread" ELSE @]
    /\ IF ui.after = "spawn"
       THEN /\ ui' = UiIdle
            /\ refresh' = [at |-> "top", i |-> 0]
       ELSE /\ ui' = [UiIdle EXCEPT !.at = "diff_lock"]
            /\ UNCHANGED refresh
    /\ UNCHANGED << dev_vars, visited, state_lock, device_lock, device, shutdown >>


----------------------------------------------------------------------------
(* update_internal: one frame of the UI.                                   *)

\* eframe calls update
FrameStart ==
    /\ ui.at = "idle"
    /\ ui' = [UiIdle EXCEPT !.at = "grid", !.i = 1]
    /\ UNCHANGED << dev_vars, params, previous_params, visited, state_lock, device_lock,
                    device, refresh, shutdown, hist >>

\* one row of the grid: the state is locked, the widget of a ReadWrite
\* parameter may set the value, the lock is dropped at the end of the row
Grid ==
    /\ ui.at = "grid"
    /\ lock(state_lock)
    /\ LET p == UiSorted[ui.i]
       IN  /\ \E v \in UiEdits(p) \cup { params[p] } :
                 /\ v # params[p] => access(config(p)) = "ReadWrite"
                 /\ params' = [params EXCEPT ![p] = v]
                 /\ hist' = [hist EXCEPT !.sent = sent_after([params EXCEPT ![p] = v]),
                                         !.edits[p] = IF v # params[p] THEN "pending" ELSE @]
           /\ ui' = IF ui.i = Len(UiSorted) THEN [ui EXCEPT !.at = "button"]
                    ELSE [ui EXCEPT !.i = @ + 1]
    /\ UNCHANGED << dev_vars, previous_params, visited, state_lock, device_lock, device,
                    refresh, shutdown >>

\* the button "Reset device" was not clicked
NoReset ==
    /\ ui.at = "button"
    /\ ui' = [ui EXCEPT !.at = "diff_lock"]
    /\ UNCHANGED << dev_vars, params, previous_params, visited, state_lock, device_lock,
                    device, refresh, shutdown, hist >>

\* the button was clicked: the device is locked for the whole of reset
ResetLock ==
    /\ ui.at = "button"
    /\ device.handle < MaxHandle
    /\ lock(device_lock)
    /\ device_lock' = "ui"
    /\ ui' = [ui EXCEPT !.at = "reset", !.i = 1]
    /\ hist' = [hist EXCEPT !.before = device]
    /\ UNCHANGED << dev_vars, params, previous_params, visited, state_lock, device,
                    refresh, shutdown >>

\* the next statement of reset
ResetStep(t) ==
    /\ ui.at = "reset"
    /\ LET op == reset_steps[ui.i]
       IN  \E ok \in IF t.faults /\ can_fail(op) THEN BOOLEAN ELSE { TRUE } :
             /\ hist' = [hist EXCEPT !.reset = Append(@, ResetOp(op, device, ok)),
                                     !.cache = IF ok /\ op = "open" THEN "stale" ELSE @]
             /\ device' = IF ok THEN reset_effect(op, device) ELSE device
             /\ ui' = IF ~ok THEN [ui EXCEPT !.at = "reset_err"]
                      ELSE IF ui.i = Len(reset_steps) THEN [ui EXCEPT !.at = "reset_ok"]
                      ELSE [ui EXCEPT !.i = @ + 1]
    /\ UNCHANGED << dev_vars, params, previous_params, visited, state_lock, device_lock,
                    refresh, shutdown >>

\* reset returned: the device lock is dropped; after an error the frame
\* ends, after Ok update_all_params follows
ResetReturn ==
    /\ ui.at \in { "reset_err", "reset_ok" }
    /\ device_lock' = "none"
    /\ ui' = IF ui.at = "reset_ok"
             THEN [UiIdle EXCEPT !.at = "uap", !.i = 1, !.after = "diff"]
             ELSE UiIdle
    /\ hist' = [hist EXCEPT !.reset = << >>, !.before = NoDevice]
    /\ UNCHANGED << dev_vars, params, previous_params, visited, state_lock, device,
                    refresh, shutdown >>

\* f32 == f32: false whenever an operand is NaN; +0.0 == -0.0
f32_eq(a, b) == ~IsNaN(a) /\ ~IsNaN(b) /\ F32Key(a) = F32Key(b)

\* new != old through #[derive(PartialEq)] of Value: the variants, the
\* definitions and the numbers are compared, the numbers of a Float as f32
ne(new, old) ==
    IF new.tag = "Float" /\ old.tag = "Float"
    THEN ~(new.config = old.config /\ f32_eq(new.v, old.v))
    ELSE new # old

\* the write-back pass locks the state
DiffLock ==
    /\ ui.at = "diff_lock"
    /\ lock(state_lock)
    /\ state_lock' = "ui"
    /\ ui' = [ui EXCEPT !.at = "diff", !.any_changes = FALSE]
    /\ UNCHANGED << dev_vars, params, previous_params, visited, device_lock, device,
                    refresh, shutdown, hist >>

\* the parameters the zip of the two maps has still to yield: the maps
\* iterate in the same order, and this order is arbitrary
to_visit == UiParams \ visited

\* the next pair of the zip is equal
DiffSame ==
    /\ ui.at = "diff"
    /\ \E p \in to_visit :
         /\ ~ne(params[p], previous_params[p])
         /\ visited' = visited \cup { p }
    /\ UNCHANGED << dev_vars, params, previous_params, state_lock, device_lock,
                    device, ui, refresh, shutdown, hist >>

\* the next pair differs: the device is locked for the write
DiffDevice ==
    /\ ui.at = "diff"
    /\ lock(device_lock)
    /\ \E p \in to_visit :
         /\ ne(params[p], previous_params[p])
         /\ ui' = [ui EXCEPT !.at = "diff_io", !.p = p]
    /\ device_lock' = "ui"
    /\ UNCHANGED << dev_vars, params, previous_params, visited, state_lock, device,
                    refresh, shutdown, hist >>

\* one call of write in the history
WriteOp(p, value, r) ==
    [param |-> p, value |-> value, ok |-> r.ret.ok, transfers |-> r.transfers,
     again |-> hist.sent[p] = value]

\* the snapshot's value is written
old(p) == previous_params[p]

\* the value of the pair that is passed to write: that of state.params
new(p) == params[p]

\* device.write(p, new)?; an error ends the pass and the frame
DiffWrite(t) ==
    /\ ui.at = "diff_io"
    /\ \E io \in UiWriteOutcomes(t) :
         LET p == ui.p
             r == write_result(p, new(p), io)
         IN  /\ hist' = [hist EXCEPT !.writes = Append(@, WriteOp(p, new(p), r)),
                                     !.sent[p] = IF r.ret.ok THEN new(p) ELSE @,
                                     !.edits[p] = "none"]
             /\ IF r.ret.ok
                THEN ui' = [ui EXCEPT !.at = "diff", !.p = "", !.any_changes = TRUE]
                ELSE ui' = [ui EXCEPT !.at = "diff_err"]
    /\ visited' = visited \cup { ui.p }
    /\ device_lock' = "none"
    /\ UNCHANGED << dev_vars, params, previous_params, state_lock, device, refresh,
                    shutdown >>

\* the frame is over: maps replaced in it are no longer new
cache_after_frame == IF hist.cache = "reread" THEN "live" ELSE hist.cache

\* the error leaves update_internal: the state lock is dropped, update logs it
DiffError ==
    /\ ui.at = "diff_err"
    /\ state_lock' = "none"
    /\ ui' = UiIdle
    /\ visited' = { }
    /\ hist' = [hist EXCEPT !.writes = << >>, !.edits = edits_after_frame,
                            !.cache = cache_after_frame]
    /\ UNCHANGED << dev_vars, params, previous_params, device_lock, device, refresh,
                    shutdown >>

\* the snapshot is never adopted
adopt_never(any_changes) == previous_params

\* if any_changes { state.previous_params = state.params.clone(); }

adopt(any_changes) == IF any_changes THEN params ELSE previous_params

\* the end of the pass and of the frame
DiffEnd ==
    /\ ui.at = "diff"
    /\ to_visit = { }
    /\ previous_params' = adopt(ui.any_changes)
    /\ state_lock' = "none"
    /\ ui' = UiIdle
    /\ visited' = { }
    /\ hist' = [hist EXCEPT !.writes = << >>, !.edits = edits_after_frame,
                            !.cache = cache_after_frame]
    /\ UNCHANGED << dev_vars, params, device_lock, device, refresh, shutdown >>

----------------------------------------------------------------------------
(* run_ui after the window was closed.                                     *)

\* eframe::run_native returns
Close ==
    /\ ui.at = "idle"
    /\ ui' = [ui EXCEPT !.at = "send"]
    /\ UNCHANGED << dev_vars, params, previous_params, visited, state_lock, device_lock,
                    device, refresh, shutdown, hist >>

\* the receiver lives as long as the closure of the refresh thread
receiver_alive == refresh.at \notin { "none", "stopped", "failed" }

\* shutdown_tx.send(())?: an error ends run_ui before the join
Send ==
    /\ ui.at = "send"
    /\ IF receiver_alive
       THEN /\ shutdown' = "sent"
            /\ ui' = [ui EXCEPT !.at = "join"]
       ELSE /\ ui' = [ui EXCEPT !.at = "done"]
            /\ UNCHANGED shutdown
    /\ UNCHANGED << dev_vars, params, previous_params, visited, state_lock, device_lock,
                    device, refresh, hist >>

\* h.join() returns once the thread has ended
Join ==
    /\ ui.at = "join"
    /\ refresh.at \in { "stopped", "failed" }
    /\ ui' = [ui EXCEPT !.at = "done"]
    /\ UNCHANGED << dev_vars, params, previous_params, visited, state_lock, device_lock,
                    device, refresh, shutdown, hist >>

----------------------------------------------------------------------------
(* The refresh thread.                                                     *)

\* the signal is never seen
try_recv_never == FALSE

\* shutdown_rx.try_recv().is_ok()
try_recv_is_ok == shutdown = "sent"

\* the top of the loop: the message is taken and the loop left, or a tick begins
Top ==
    /\ refresh.at = "top"
    /\ IF try_recv_is_ok
       THEN /\ shutdown' = "received"
            /\ refresh' = [refresh EXCEPT !.at = "stopped"]
       ELSE /\ refresh' = [refresh EXCEPT !.at = "tick"]
            /\ UNCHANGED shutdown
    /\ UNCHANGED << dev_vars, params, previous_params, visited, state_lock, device_lock,
                    device, ui, hist >>

\* the state is locked for the whole of the refresh
TickLock ==
    /\ refresh.at = "tick"
    /\ lock(state_lock)
    /\ state_lock' = "refresh"
    /\ refresh' = [at |-> "read", i |-> 1]
    /\ UNCHANGED << dev_vars, params, previous_params, visited, device_lock, device, ui,
                    shutdown, hist >>

\* the device is locked for the read of the next read-only parameter
RefreshDevice ==
    /\ refresh.at = "read"
    /\ refresh.i <= Len(ReadOnlySorted)
    /\ lock(device_lock)
    /\ device_lock' = "refresh"
    /\ refresh' = [refresh EXCEPT !.at = "io"]
    /\ UNCHANGED << dev_vars, params, previous_params, visited, state_lock, device, ui,
                    shutdown, hist >>

\* the value stored into previous_params by the refresh
refresh_previous_kept(p, v) == previous_params

refresh_previous(p, v) == [previous_params EXCEPT ![p] = v]

\* the guard outlives its block
device_guard_kept == device_lock

\* the end of the block { let device = device_arc.lock(); device.read(param)? }
device_guard_dropped == "none"

\* device.read(param)?, the device lock is dropped, the value is stored in
\* both maps; an error ends the thread
RefreshRead(t) ==
    /\ refresh.at = "io"
    /\ \E io \in UiReadOutcomes(ReadOnlySorted[refresh.i], t) :
         LET p == ReadOnlySorted[refresh.i]
             r == read_result(config(p), io, 0).ret
         IN  IF r.ok
             THEN /\ params' = [params EXCEPT ![p] = r.value]
                  /\ previous_params' = refresh_previous(p, r.value)
                  /\ hist' = [hist EXCEPT !.sent = sent_after([params EXCEPT ![p] = r.value])]
                  /\ refresh' = [refresh EXCEPT !.at = "read", !.i = @ + 1]
                  /\ UNCHANGED state_lock
             ELSE /\ refresh' = [refresh EXCEPT !.at = "failed"]
                  /\ state_lock' = "none"
                  /\ UNCHANGED << params, previous_params, hist >>
    /\ device_lock' = device_guard_dropped
    /\ UNCHANGED << dev_vars, visited, device, ui, shutdown >>

\* the end of the refresh: the state lock is dropped; after
\* ctx.request_repaint() and thread::sleep(50 ms) the thread is at the top
\* of the loop again
RefreshEnd ==
    /\ refresh.at = "read"
    /\ refresh.i > Len(ReadOnlySorted)
    /\ state_lock' = "none"
    /\ refresh' = [at |-> "top", i |-> 0]
    /\ UNCHANGED << dev_vars, params, previous_params, visited, device_lock, device, ui,
                    shutdown, hist >>

\* the steps of the UI thread over transport t
UiThread(t) ==
    \/ UapLock \/ UapRead(t) \/ UapAdopt
    \/ FrameStart \/ Grid \/ NoReset \/ ResetLock \/ ResetStep(t) \/ ResetReturn
    \/ DiffLock \/ DiffSame \/ DiffDevice \/ DiffWrite(t) \/ DiffEnd
    \/ Close \/ Send \/ Join

\* the steps of the refresh thread over transport t
RefreshThread(t) ==
    \/ Top \/ TickLock \/ RefreshDevice \/ RefreshRead(t) \/ RefreshEnd

UiNext == UiThread(AnyTransport) \/ DiffError \/ RefreshThread(AnyTransport)

UiSpec == UiInit /\ [][UiNext]_vars

\* The UI with a transport that does not fail and a device whose registers
\* do not change. Both threads keep running: a thread that waits for a
\* Mutex gets it, since the other thread drops each lock after a bounded
\* piece of work and the refresh thread sleeps between two refreshes.
OkNext == UiThread(SteadyTransport) \/ RefreshThread(SteadyTransport)

OkSpec ==
    /\ UiInit
    /\ [][OkNext]_vars
    /\ SF_vars(UiThread(SteadyTransport))
    /\ SF_vars(RefreshThread(SteadyTransport))

----------------------------------------------------------------------------
(* Properties of the write-back pass.                                      *)

\* the cached value of p differs from the snapshot
Differs(p) == ne(params[p], previous_params[p])

\* the loop of the pass is over: it visited every pair ...
PassComplete == ui.at = "diff" /\ to_visit = { }

\* ... or a write failed
PassFailed == ui.at = "diff_err"

PassOver == PassComplete \/ PassFailed

\* the calls of write the pass made for p
WritesOf(p) == { k \in DOMAIN hist.writes : hist.writes[k].param = p }

\* the calls write(p, current value of p)
CurrentWritesOf(p) == { k \in WritesOf(p) : hist.writes[k].value = params[p] }

AllWritesOk == \A k \in DOMAIN hist.writes : hist.writes[k].ok

IsReadWrite(p) == access(config(p)) = "ReadWrite"

\* the step that ends a pass whose loop visited every pair
PassEnds == PassComplete /\ ui'.at = "idle"

\* C11 as stated: when a pass is over, every ReadWrite parameter that differs
\* from the snapshot was written exactly once with its current value, and
\* no other parameter was written; and a pass without a failing write ends
\* with the snapshot equal to the cache.
C11_OneWritePerChange ==
    /\ [](PassOver =>
            \A p \in UiParams :
                /\ IsReadWrite(p) /\ Differs(p)
                     => Cardinality(WritesOf(p)) = 1 /\ CurrentWritesOf(p) = WritesOf(p)
                /\ ~Differs(p) => WritesOf(p) = { })
    /\ [][PassEnds /\ AllWritesOk => previous_params' = params']_vars

\* C11, amended: the pass writes the differing parameters in the order of
\* the iteration, each once and with its current value, up to the first
\* write that fails; parameters that are equal are never written, where a
\* NaN differs from every value and so from itself. A pass
\* without a failing write wrote every differing parameter and ends with
\* the snapshot equal to the cache; a failing write ends the pass and
\* leaves the snapshot as it was.
C11_OneWritePerChangeUntilFailure ==
    /\ [](PassOver =>
            /\ \A p \in UiParams :
                 /\ Cardinality(WritesOf(p)) = (IF p \in visited /\ Differs(p) THEN 1 ELSE 0)
                 /\ CurrentWritesOf(p) = WritesOf(p)
                 /\ WritesOf(p) # { } /\ ~IsReadWrite(p) =>
                      PassFailed /\ ui.p = p /\ IsNaN(params[p].v)
            /\ \A k \in DOMAIN hist.writes : hist.writes[k].ok <=> ~(PassFailed /\ k = Len(hist.writes))
            /\ PassFailed => hist.writes # << >> /\ hist.writes[Len(hist.writes)].param = ui.p)
    /\ [][PassEnds => previous_params' = params' /\ params' = params]_vars
    /\ [][PassFailed /\ ui'.at = "idle" => previous_params' = previous_params]_vars

\* a complete pass that wrote 0.5 to AECNORM and nothing to AECFREEZEONOFF,
\* which was equal in both maps
C11_Witness ==
    /\ PassComplete
    /\ Len(hist.writes) = 1
    /\ hist.writes[1].param = "AECNORM"
    /\ hist.writes[1].ok
    /\ hist.writes[1].value.v = F32(0, 126, 0)
    /\ ~Differs("AECFREEZEONOFF")


\* C12: no call of write sends a value that was already written with
\* success to the same parameter while the cached value of the parameter
\* has not changed since that write.
C12_NoResend == \A k \in DOMAIN hist.writes : ~hist.writes[k].again


----------------------------------------------------------------------------
(* Properties of the propagation of edits.                                 *)

\* the running pass has called write for p
Written(p) == WritesOf(p) # { }

ReadWriteParams == { p \in UiParams : IsReadWrite(p) }

----------------------------------------------------------------------------
(* Properties of the two threads together.                                 *)

C15_LoopSurvivesReadError == refresh.at # "failed"


Threads == { "ui", "refresh" }

\* C16: no thread holds the state lock and the device lock at once.
C16_OneLockAtATime ==
    \A t \in Threads : ~(state_lock = t /\ device_lock = t)

\* the reset command has been sent and the session is not yet open again
ResetInFlight == ui.at = "reset" /\ ui.i > 2

\* the refresh thread has called device_arc.lock() for a read and waits
RefreshWaits ==
    /\ refresh.at = "read"
    /\ refresh.i <= Len(ReadOnlySorted)
    /\ ~lock(device_lock)

\* C17: a read attempted by the refresh thread while a reset is in flight
\* does not wait for the reset to finish.
C17_NoWaitDuringReset == ResetInFlight => ~RefreshWaits

\* thread t is inside a call on the device handle: a read, a write, or reset
\* (claim interface, reset command, release, settle, re-open)
InTransport(t) ==
    IF t = "ui" THEN ui.at \in { "uap_io", "diff_io", "reset", "reset_ok", "reset_err" }
    ELSE refresh.at = "io"

\* C18: at most one thread is inside a call on the device handle, and it
\* owns the device lock; in particular no read of the refresh thread
\* overlaps any part of a reset.
C18_TransportExclusive ==
    /\ \A t \in Threads : InTransport(t) => device_lock = t
    /\ ~(InTransport("ui") /\ InTransport("refresh"))
    /\ ui.at \in { "reset", "reset_ok", "reset_err" } => refresh.at # "io"

\* the reset sleeps while the refresh thread, in the middle of a refresh,
\* waits for the device
C18_Witness ==
    /\ ui.at = "reset"
    /\ reset_steps[ui.i] = "sleep"
    /\ refresh.at = "read"
    /\ refresh.i = 2
    /\ device_lock = "ui"


----------------------------------------------------------------------------
(* Properties of the shutdown.                                             *)

RefreshEnded == refresh.at \in { "stopped", "failed" }

\* the refresh thread is inside a tick
InTick == refresh.at \in { "tick", "read", "io" }

\* C19: a tick begins only at the top of the loop and only if no signal
\* is there, so no device I/O of a tick comes before the check; once
\* the signal is sent the thread begins no tick, and it ends after the
\* tick in progress, if any.
C19_StopsAfterSignal ==
    /\ [][InTick' /\ ~InTick => refresh.at = "top" /\ shutdown # "sent"]_vars
    /\ [](refresh.at = "io" => shutdown # "received")
    /\ (shutdown = "sent") ~> RefreshEnded

\* the window was closed and the signal sent while the refresh thread was
\* inside a read of its tick
C19_Witness ==
    /\ shutdown = "sent"
    /\ ui.at = "join"
    /\ refresh.at = "io"
    /\ refresh.i = 2


----------------------------------------------------------------------------
(* Properties of reset.                                                    *)

InReset == ui.at \in { "reset", "reset_ok", "reset_err" }

\* the order the statements of reset are to run in
ResetOrder == << "claim_interface", "write_control", "release_interface", "sleep", "open" >>

\* C20: the statements of a reset run in the order claim interface, control
\* write, release interface, settle delay, re-open, all on the handle and
\* the interface the session had; the control write is class-scoped, to
\* the interface recipient, with request 0xF0 and no payload; a statement
\* that fails is the last one executed and reset returns the error; a
\* reset that returns Ok has executed all five and left a new handle for
\* the same device index.
C20_ResetOrder ==
    InReset =>
      /\ Len(hist.reset) <= Len(ResetOrder)
      /\ \A k \in DOMAIN hist.reset :
           /\ hist.reset[k].op = ResetOrder[k]
           /\ hist.reset[k].handle = hist.before.handle
           /\ hist.reset[k].arg = hist.before.interface_number
           /\ ~hist.reset[k].ok => k = Len(hist.reset) /\ ui.at = "reset_err"
           /\ hist.reset[k].op = "write_control" =>
                /\ hist.reset[k].xfer.request_type =
                     [direction |-> "Out", type |-> "Class", recipient |-> "Interface"]
                /\ hist.reset[k].xfer.request = 240
                /\ hist.reset[k].xfer.value = 0
                /\ hist.reset[k].xfer.index = hist.before.interface_number
                /\ hist.reset[k].xfer.data = << >>
      /\ ui.at = "reset" => Len(hist.reset) = ui.i - 1
      /\ ui.at = "reset_err" => ~hist.reset[Len(hist.reset)].ok
      /\ ui.at = "reset_ok" =>
           /\ Len(hist.reset) = Len(ResetOrder)
           /\ device.handle # hist.before.handle
           /\ device.index = hist.before.index
           /\ ~device.claimed
      /\ ui.at # "reset_ok" => device.handle = hist.before.handle

\* a reset has returned Ok: the second handle of the session is open
C20_Witness ==
    /\ ui.at = "reset_ok"
    /\ Len(hist.reset) = 5
    /\ hist.before.handle = 1
    /\ device.handle = 2

----------------------------------------------------------------------------
(* Properties of the cache: the maps params and previous_params.           *)

\* update_all_params, called for a cache that is in use, leaves with the
\* error of a read
UapFails == ui.at = "uap_io" /\ ui.after = "diff" /\ ui'.at \notin { "uap_io", "uap" }

\* the values update_all_params has read so far
UapReadSoFar == { p \in UiParams : ui.new[p] # NoValue }

\* the refresh thread has read a parameter with success
RefreshReads == refresh.at = "io" /\ refresh'.at = "read"

\* C21: once the operation that called read has returned, the cache entry
\* of every parameter it read with success is the value read, and a read
\* changes the entry of no other parameter.
C21_ReadUpdatesCache ==
    [][ /\ UapFails => \A p \in UapReadSoFar : params'[p] = ui.new[p]
        /\ RefreshReads =>
             \A q \in UiParams \ { ReadOnlySorted[refresh.i] } : params'[q] = params[q]
      ]_vars

\* the write-back pass returns from a call of write
WriteReturns == ui.at = "diff_io" /\ ui'.at # "diff_io"

\* C22: after a successful write(kind, v) the cache entry of kind is v, and
\* stays v for the rest of the pass; a write that fails leaves both maps of
\* the cache as they were.
C22_WriteAndCache ==
    [][ /\ \A k \in DOMAIN hist'.writes :
             hist'.writes[k].ok => params'[hist'.writes[k].param] = hist'.writes[k].value
        /\ WriteReturns =>
             LET w == hist'.writes[Len(hist'.writes)]
             IN  /\ w.param = ui.p
                 /\ ~w.ok => params' = params /\ previous_params' = previous_params
      ]_vars

\* a pass with a write that succeeded and then a write that failed
C22_Witness ==
    /\ ui.at = "diff_err"
    /\ Len(hist.writes) = 2
    /\ hist.writes[1].ok
    /\ ~hist.writes[2].ok
    /\ params[hist.writes[1].param] = hist.writes[1].value
    /\ params[hist.writes[2].param] = hist.writes[2].value

\* both maps have an entry for every parameter
Populated ==
    \A p \in UiParams : params[p] # NoValue /\ previous_params[p] # NoValue

\* UiState::new has not returned Ok: no refresh thread, no frame
NotConstructed == refresh.at = "none"

\* the parameters update_all_params reads, each as often as it is read
UapReads == [p \in UiParams |-> Cardinality({ i \in DOMAIN UiSorted : UiSorted[i] = p })]

\* C23: the maps are created empty and stay empty until update_all_params
\* has read every parameter once; the refresh thread and the frames run
\* only after that, and from then on both maps have an entry for every
\* parameter, so that no lookup of the threads fails.
C23_CachePopulated ==
    /\ \A p \in UiParams : UapReads[p] = 1
    /\ IF NotConstructed
       THEN /\ params = EmptyMap
            /\ previous_params = EmptyMap
            /\ ui.at \in { "uap", "uap_io", "send", "done" }
            /\ ui.at \in { "uap", "uap_io" } =>
                 /\ ui.after = "spawn"
                 /\ \A k \in DOMAIN UiSorted : ui.new[UiSorted[k]] # NoValue <=> k < ui.i
       ELSE Populated

\* the refresh thread reads and a frame draws the grid, after a reset has
\* replaced the maps
C23_Witness ==
    /\ device.handle = 2
    /\ refresh.at = "io"
    /\ ui.at = "grid"
    /\ Populated

----------------------------------------------------------------------------
(* Commands that use the registry or the session without the UI: list,    *)
(* and callers of Param::sorted and Param::config such as the CSV writer.  *)

\* no table
NoRows == << >>

CliIdle ==
    [at |-> "idle",
     once |-> FALSE,        \* the OnceLock of Param::config is initialised
     p |-> "",              \* the parameter of the running call of config
     cfg |-> << >>,         \* what the calls of config for p returned, in order
     out |-> << >>,         \* what the calls of sorted returned, in order
     i |-> 0,               \* list: the position in Param::iter()
     rows |-> NoRows,       \* list: the names of the rows pushed so far
     value |-> NoValue,     \* list: the value of the last row
     reads |-> << >>,       \* list: the parameters read was called for
     ret |-> Ok(NoValue),   \* list: the Result returned
     table |-> NoRows,      \* list: the rows of the table returned
     header |-> << >>,      \* csv: the header record written by CsvWriter::new
     values |-> << >>,      \* csv: the sample of the last write_row
     record |-> << >>,      \* csv: the record the last write_row wrote
     arg |-> << >>]         \* write: the characters of the value argument

CliInit ==
    /\ call = NoCall
    /\ ret = Ok(NoValue)
    /\ transfers = << >>
    /\ rt = NoRt
    /\ NoUi
    /\ cli = CliIdle

cli_others == << call, ret, transfers, rt, ui_vars >>

\* calls of one function observed together
MaxCalls == 2

\* MAP.get_or_init(...)[self.clone()]
get_or_init(p) == config(p)

\* a caller asks for the definition of a parameter
ConfigCall ==
    /\ cli.at \in { "idle", "calls" }
    /\ Len(cli.cfg) < MaxCalls
    /\ \E p \in ParamSet :
         /\ cli.cfg # << >> => p = cli.p
         /\ cli' = [cli EXCEPT !.at = "calls", !.once = TRUE, !.p = p,
                               !.cfg = Append(@, get_or_init(p))]
    /\ UNCHANGED cli_others

\* a caller asks for the sorted parameters
SortedCall ==
    /\ cli.at \in { "idle", "calls" }
    /\ Len(cli.out) < MaxCalls
    /\ cli' = [cli EXCEPT !.at = "calls", !.once = TRUE, !.out = Append(@, sorted)]
    /\ UNCHANGED cli_others

\* ReSpeakerDevice::list begins: rows is empty, Param::iter() at its start
ListStart ==
    /\ cli.at = "idle"
    /\ cli' = [cli EXCEPT !.at = "list", !.i = 1]
    /\ UNCHANGED cli_others

\* the iterator list walks: Param::iter()
list_iter == Param

\* one turn of the loop: self.read(config)?, and the row is pushed
ListRead ==
    /\ cli.at = "list"
    /\ cli.i <= Len(list_iter)
    /\ LET p == list_iter[cli.i]
       IN  \E io \in UiReadOutcomes(p, AnyTransport) :
             LET r == read_result(config(p), io, 0).ret
             IN  cli' = IF r.ok
                        THEN [cli EXCEPT !.i = @ + 1, !.once = TRUE,
                                         !.reads = Append(@, p),
                                         !.rows = Append(@, p), !.value = r.value]
                        ELSE [cli EXCEPT !.at = "listed", !.once = TRUE,
                                         !.reads = Append(@, p),
                                         !.rows = NoRows, !.value = NoValue,
                                         !.ret = r]
    /\ UNCHANGED cli_others

\* Ok(Table::new(rows).to_string())
ListEnd ==
    /\ cli.at = "list"
    /\ cli.i > Len(list_iter)
    /\ cli' = [cli EXCEPT !.at = "listed", !.table = cli.rows, !.rows = NoRows,
                          !.value = NoValue]
    /\ UNCHANGED cli_others

----------------------------------------------------------------------------
(* The CSV writer: CsvWriter::new and CsvWriter::write_row, with the       *)
(* string form of a Value (impl Display for Value).                        *)

\* the decimal digits a formatted number is built from
Digit(d) == << "0", "1", "2", "3", "4", "5", "6", "7", "8", "9" >>[d + 1]

RECURSIVE NatToString(_)
\* the decimal form of a natural number, without leading zeros
NatToString(n) == IF n < 10 THEN Digit(n) ELSE NatToString(n \div 10) \o Digit(n % 10)

\* format!("{v}") of an i32
i32_to_string(v) ==
    IF v = MinI32 THEN "-2147483648"
    ELSE IF v < 0 THEN "-" \o NatToString(-v)
    ELSE NatToString(v)

\* the f32 values whose shortest decimal form is computed here: the zeros,
\* the infinities, NaN and the multiples of 1/8 of magnitude in [1/8, 1024)
Formattable(x) ==
    \/ x.e = 255
    \/ x.e = 0 /\ x.f = 0
    \/ /\ x.e \in 124 .. 136
       /\ (8388608 + x.f) % (2 ^ (147 - x.e)) = 0

\* the digits after the decimal point of k/8; nothing for a whole number
eighths_to_string(k) ==
    << "", ".125", ".25", ".375", ".5", ".625", ".75", ".875" >>[k + 1]

\* format!("{v}") of an f32: NaN without a sign, inf, and for a finite value
\* the shortest decimal that reads back as v, without an exponent and
\* without ".0" for a whole number
f32_to_string(x) ==
    IF IsNaN(x) THEN "NaN"
    ELSE LET sign == IF x.s = 1 THEN "-" ELSE ""
         IN  IF IsInf(x) THEN sign \o "inf"
             ELSE IF x.e = 0 THEN sign \o "0"
             ELSE LET k == (8388608 + x.f) \div (2 ^ (147 - x.e))
                  IN  sign \o NatToString(k \div 8) \o eighths_to_string(k % 8)

\* Value::to_string through impl Display for Value
to_string(value) ==
    IF value.tag = "Int" THEN i32_to_string(value.v) ELSE f32_to_string(value.v)

\* values.get(param).map_or_else(String::new, Value::to_string)
field(values, param) ==
    IF values[param] = NoValue THEN "" ELSE to_string(values[param])

\* the two timestamp columns of the header
timestamp_headers == << "timestamp_before_read", "timestamp_after_read" >>

\* format!("{p:?}"): the name of the variant
debug(p) == p

\* headers of CsvWriter::new
headers == timestamp_headers \o [i \in 1 .. Len(sorted) |-> debug(sorted[i])]

\* a record whose columns follow the declaration of the enum
write_row_record_iter(timestamp_before, timestamp_after, values) ==
    << timestamp_before, timestamp_after >>
        \o [i \in 1 .. Len(Param) |-> field(values, Param[i])]

\* record of CsvWriter::write_row
write_row_record(timestamp_before, timestamp_after, values) ==
    << timestamp_before, timestamp_after >>
        \o [i \in 1 .. Len(sorted) |-> field(values, sorted[i])]

\* the key sets of the samples handed to write_row
SampleKeys ==
    { {}, { "RT60" }, ParamSet \ { "RT60" },
      { p \in ParamSet : access(config(p)) = "ReadOnly" }, ParamSet }

\* the numbers a sample holds: an i32 and an f32 (0.25, 0.5, -12.125, NaN)
SampleNumbers ==
    { << 0, F32(0, 125, 0) >>, << 1, F32(0, 126, 0) >>,
      << -359, F32(1, 130, 4325376) >>, << MaxI32, F32(0, 255, 4194304) >> }

\* a HashMap<ParamKind, Value>; NoValue stands for a key the map lacks
Sample(keys, n) ==
    [p \in ParamSet |->
        IF p \notin keys THEN NoValue
        ELSE IF is_int(config(p)) THEN ValueInt(config(p).config, n[1])
        ELSE ValueFloat(config(p).config, n[2])]

Samples == { Sample(keys, n) : keys \in SampleKeys, n \in SampleNumbers }

\* timestamps as the callers format them
Timestamps == { "0", "0.5" }

\* CsvWriter::new: the header is written and flushed, or an error returns
CsvNew ==
    /\ cli.at = "idle"
    /\ \E ok \in BOOLEAN :
         cli' = IF ok THEN [cli EXCEPT !.at = "csv", !.once = TRUE, !.header = headers]
                ELSE [cli EXCEPT !.once = TRUE]
    /\ UNCHANGED cli_others

\* CsvWriter::write_row
WriteRow ==
    /\ cli.at = "csv"
    /\ \E values \in Samples, timestamp_before \in Timestamps,
          timestamp_after \in Timestamps :
         /\ cli' = [cli EXCEPT !.values = values,
                               !.record = write_row_record(timestamp_before,
                                                           timestamp_after, values)]
    /\ UNCHANGED cli_others

----------------------------------------------------------------------------
(* The write command of the CLI: ParseValue and the call of write. A       *)
(* string to parse is the sequence of its characters.                      *)

\* the value of a decimal digit, -1 for any other character
DigitValue(c) ==
    CASE c = "0" -> 0 [] c = "1" -> 1 [] c = "2" -> 2 [] c = "3" -> 3 [] c = "4" -> 4
      [] c = "5" -> 5 [] c = "6" -> 6 [] c = "7" -> 7 [] c = "8" -> 8 [] c = "9" -> 9
      [] OTHER -> -1

IsDigits(s) == \A i \in DOMAIN s : DigitValue(s[i]) >= 0

\* one digit more: v is the magnitude so far as long as it fits an i32;
\* over = 1 stands for the magnitude 2^31, over = 2 for a larger one
NextDigit(m, d) ==
    IF m.over # 0 THEN [v |-> 0, over |-> 2]
    ELSE IF m.v <= (MaxI32 - d) \div 10 THEN [v |-> m.v * 10 + d, over |-> 0]
    ELSE IF m.v = 214748364 /\ d = 8 THEN [v |-> 0, over |-> 1]
    ELSE [v |-> 0, over |-> 2]

RECURSIVE DigitsValue(_)
\* the number a sequence of digits denotes
DigitsValue(s) ==
    IF s = << >> THEN [v |-> 0, over |-> 0]
    ELSE NextDigit(DigitsValue(SubSeq(s, 1, Len(s) - 1)), DigitValue(s[Len(s)]))

HasSign(s) == s # << >> /\ s[1] \in { "+", "-" }

Unsigned(s) == IF HasSign(s) THEN Tail(s) ELSE s

IsNegative(s) == s # << >> /\ s[1] = "-"

NoNumber == [ok |-> FALSE, v |-> 0]

\* string.parse::<i32>(): an optional sign and one digit or more; a number
\* outside of i32 is an error
parse_i32(s) ==
    LET digits == Unsigned(s)
        m == DigitsValue(digits)
    IN  IF digits = << >> \/ ~IsDigits(digits) THEN NoNumber
        ELSE IF m.over = 0 THEN [ok |-> TRUE, v |-> IF IsNegative(s) THEN -m.v ELSE m.v]
        ELSE IF m.over = 1 /\ IsNegative(s) THEN [ok |-> TRUE, v |-> MinI32]
        ELSE NoNumber

\* the characters in lower case, for the letters that the names of the
\* special values have
Lower(s) ==
    [i \in DOMAIN s |->
        CASE s[i] = "N" -> "n" [] s[i] = "A" -> "a" [] s[i] = "I" -> "i"
          [] s[i] = "F" -> "f" [] s[i] = "T" -> "t" [] s[i] = "Y" -> "y"
          [] OTHER -> s[i]]

\* the position of the decimal point, 0 if there is none
PointAt(s) == IF \E i \in DOMAIN s : s[i] = "." THEN CHOOSE i \in DOMAIN s : s[i] = "." ELSE 0

RECURSIVE Pow5(_)
Pow5(k) == IF k = 0 THEN 1 ELSE 5 * Pow5(k - 1)

\* the decimals whose value is computed: the digits without the point
\* denote a number n below 2^31, and n / 10^k, with k the number of digits
\* of the fraction, is a multiple of 2^-k: it is then (n / 5^k) * 2^-k
Dyadic(ints, fracs) ==
    /\ DigitsValue(ints \o fracs).over = 0
    /\ DigitsValue(ints \o fracs).v % Pow5(Len(fracs)) = 0

\* string.parse::<f32>(): an optional sign, then inf, infinity or nan in
\* any case, or digits with an optional decimal point and a digit at least;
\* the value is computed for the decimals of Dyadic and for 2147483648
parse_f32(s) ==
    LET sign == IF IsNegative(s) THEN 1 ELSE 0
        body == Unsigned(s)
        point == PointAt(body)
        ints == IF point = 0 THEN body ELSE SubSeq(body, 1, point - 1)
        fracs == IF point = 0 THEN << >> ELSE SubSeq(body, point + 1, Len(body))
        n == DigitsValue(ints \o fracs).v
    IN  IF Lower(body) \in { << "i", "n", "f" >>,
                            << "i", "n", "f", "i", "n", "i", "t", "y" >> }
        THEN [ok |-> TRUE, v |-> F32(sign, 255, 0)]
        ELSE IF Lower(body) = << "n", "a", "n" >>
        THEN [ok |-> TRUE, v |-> F32(sign, 255, 4194304)]
        ELSE IF ints \o fracs = << >> \/ ~IsDigits(ints \o fracs)
        THEN [ok |-> FALSE, v |-> F32(0, 0, 0)]
        ELSE IF DigitsValue(ints).over = 1 /\ fracs = << >>
        THEN [ok |-> TRUE, v |-> F32(sign, 158, 0)]
        ELSE IF ~Dyadic(ints, fracs) THEN [ok |-> FALSE, v |-> F32(0, 0, 0)]
        ELSE IF n = 0 THEN [ok |-> TRUE, v |-> F32(sign, 0, 0)]
        ELSE [ok |-> TRUE, v |-> NearestF32(sign, n \div Pow5(Len(fracs)), -Len(fracs))]

\* .context("must be an i32") and .context("must be an f32")
ParseError(type) == [kind |-> "Parse", context |-> type]

\* the number decides the variant: an i32 if the string is one
parse_value_by_number(param_config, string) ==
    IF parse_i32(string).ok
    THEN Ok(ValueInt(param_config.config, parse_i32(string).v))
    ELSE IF parse_f32(string).ok
    THEN Ok(ValueFloat(param_config.config, parse_f32(string).v))
    ELSE Err(ParseError("f32"))

\* ParamConfig::parse_value: the variant of the definition decides
parse_value(param_config, string) ==
    IF is_int(param_config)
    THEN IF parse_i32(string).ok
         THEN Ok(ValueInt(param_config.config, parse_i32(string).v))
         ELSE Err(ParseError("i32"))
    ELSE IF parse_f32(string).ok
         THEN Ok(ValueFloat(param_config.config, parse_f32(string).v))
         ELSE Err(ParseError("f32"))

\* value arguments of the command line: strings that are no number, and
\* numbers whose value parse_i32 and parse_f32 compute
ArgStrings ==
    { << >>, << "0" >>, << "1" >>, << "5" >>, << "-", "1" >>, << "+", "3", "5", "9" >>,
      << "3", "6", "0" >>, << "0", "0", "7" >>,
      << "2", "1", "4", "7", "4", "8", "3", "6", "4", "7" >>,
      << "2", "1", "4", "7", "4", "8", "3", "6", "4", "8" >>,
      << "-", "2", "1", "4", "7", "4", "8", "3", "6", "4", "8" >>,
      << "0", ".", "5" >>, << ".", "2", "5" >>, << "1", "6", "." >>,
      << "-", "1", "2", ".", "1", "2", "5" >>, << "1", "6", ".", "5" >>,
      << "N", "a", "N" >>, << "i", "n", "f" >>, << "-" >>, << "." >>,
      << "o", "n" >>, << "1", " " >>, << "1", ".", "2", ".", "4" >> }

\* Command::Write: the argument is parsed by the definition of the
\* parameter; a parse error ends the command, else write is called
CliWrite ==
    /\ cli.at = "idle"
    /\ \E p \in ParamSet, string \in ArgStrings, io \in WriteOutcomes :
         LET parsed == parse_value(config(p), string)
         IN  cli' = [cli EXCEPT !.at = "written", !.once = TRUE, !.p = p, !.arg = string,
                                !.value = parsed.value,
                                !.ret = IF parsed.ok
                                        THEN write_result(p, parsed.value, io).ret
                                        ELSE parsed]
    /\ UNCHANGED cli_others

\* the command is over
CliReturn ==
    /\ cli.at \in { "calls", "listed", "csv", "written" }
    /\ cli' = [CliIdle EXCEPT !.once = cli.once]
    /\ UNCHANGED cli_others

CliNext ==
    \/ ConfigCall \/ SortedCall \/ ListStart \/ ListRead \/ ListEnd
    \/ CsvNew \/ WriteRow \/ CliWrite \/ CliReturn

CliSpec == CliInit /\ [][CliNext]_vars

----------------------------------------------------------------------------
(* Properties of the registry.                                             *)

\* the position of p in the declaration of enum Param
DeclIndex(p) == CHOOSE i \in DOMAIN Param : Param[i] = p

IsReadOnly(p) == access(config(p)) = "ReadOnly"

IsFloat(p) == ~is_int(config(p))

\* s is in display order
InDisplayOrder(s) ==
    \A i, j \in DOMAIN s :
      i < j =>
        /\ IsReadOnly(s[i]) => IsReadOnly(s[j])
        /\ (IsReadOnly(s[i]) <=> IsReadOnly(s[j])) =>
             /\ IsFloat(s[i]) => IsFloat(s[j])
             /\ (IsFloat(s[i]) <=> IsFloat(s[j])) => DeclIndex(s[i]) < DeclIndex(s[j])

\* C24: in what sorted() returns every ReadWrite parameter precedes every
\* ReadOnly parameter, within one access every integer parameter precedes
\* every float parameter, and parameters of the same access and type are
\* in declaration order.
C24_SortedOrder ==
    \A k \in DOMAIN cli.out : InDisplayOrder(cli.out[k])

\* sorted() has returned: the first ReadWrite integer of the declaration
\* leads, the only ReadOnly float is last, behind ReadOnly integers that
\* are declared after it
C24_Witness ==
    /\ cli.at = "calls"
    /\ Len(cli.out) = 1
    /\ cli.out[1][1] = "AECFREEZEONOFF"
    /\ cli.out[1][Len(Param)] = "RT60"
    /\ cli.out[1][Len(Param) - 1] = "VOICEACTIVITY"
    /\ DeclIndex("RT60") < DeclIndex("VOICEACTIVITY")

\* s holds every parameter exactly once
IsPermutation(s) ==
    /\ Len(s) = Len(Param)
    /\ \A p \in ParamSet : Cardinality({ i \in DOMAIN s : s[i] = p }) = 1

----------------------------------------------------------------------------
(* Properties of list.                                                     *)

ListReturned == cli.at = "listed"

\* C26: list reads every parameter exactly once and returns the rows in
\* display order (ReadWrite before ReadOnly, integer before float, then
\* declaration order); if a read fails it returns that error and no table.
C26_ListInDisplayOrder ==
    ListReturned =>
      IF cli.ret.ok
      THEN /\ IsPermutation(cli.reads)
           /\ IsPermutation(cli.table)
           /\ InDisplayOrder(cli.table)
      ELSE /\ cli.table = NoRows
           /\ cli.ret.err.kind = "Usb"
           /\ \A p \in ParamSet : Cardinality({ i \in DOMAIN cli.reads : cli.reads[i] = p }) <= 1

----------------------------------------------------------------------------
(* Properties of the refresh pass.                                         *)

\* the ReadOnly parameters in registry (declaration) order
DeclReadOnly == SelectSeq(Param, LAMBDA p : p \in UiParams /\ IsReadOnly(p))

\* C27: a refresh pass reads the ReadOnly parameters, and only these, each
\* once and in registry (declaration) order.
C27_RefreshInRegistryOrder ==
    /\ Len(ReadOnlySorted) = Len(DeclReadOnly)
    /\ \A k \in DOMAIN ReadOnlySorted : IsReadOnly(ReadOnlySorted[k])
    /\ refresh.at = "io" => ReadOnlySorted[refresh.i] = DeclReadOnly[refresh.i]

\* the write-back pass runs: it holds the state lock
InDiff == ui.at \in { "diff", "diff_io", "diff_err" }

\* a refresh pass is under way
InRefreshPass == refresh.at \in { "read", "io" }

\* a refresh pass has updated some ReadOnly parameters and not the others
RefreshPartial ==
    /\ refresh.at \in { "read", "io", "failed" }
    /\ 1 < refresh.i
    /\ refresh.i <= Len(ReadOnlySorted)

\* C28: a write-back pass never runs in the middle of a refresh pass and
\* never sees the maps with only some of the ReadOnly parameters of a
\* refresh pass updated.
C28_RefreshBeforeDiff == InDiff => ~InRefreshPass /\ ~RefreshPartial

----------------------------------------------------------------------------
(* Properties of the cache around a reset.                                 *)

\* C29 (as stated): after a successful reset no write-back pass runs before
\* a full re-read has replaced both maps.
C29_RereadBeforeDiff == InDiff => hist.cache # "stale"

\* a statement of reset is executed
ResetRuns == ui.at = "reset" /\ ui' # ui

\* the re-read that follows a reset replaces the maps
RereadAdopted == ui.at = "uap" /\ ui.after = "diff" /\ ui'.at = "diff_lock"

\* C29 (amended): reset leaves both maps as they are; the re-read that
\* follows a successful reset in the same frame, if all its reads succeed,
\* replaces both maps with the values it read on the new handle before the
\* write-back pass of the frame, and that pass finds the maps identical
\* and calls write for nothing but a float that was read as NaN, which
\* differs from itself; only a re-read that failed leaves the maps stale
\* for a later pass.
C29_RereadUnlessReadFails ==
    [][ /\ ResetRuns => params' = params /\ previous_params' = previous_params
        /\ RereadAdopted =>
             /\ hist.cache = "stale" /\ hist'.cache = "reread"
             /\ \A p \in UiParams : ui.new[p] # NoValue
             /\ params' = ui.new
             /\ previous_params' = ui.new
        /\ hist'.cache = "reread" /\ ui'.at \in { "diff_lock", "diff", "diff_io", "diff_err" } =>
             /\ params' = previous_params'
             /\ \A k \in DOMAIN hist'.writes :
                  /\ hist'.writes[k].value.tag = "Float"
                  /\ IsNaN(hist'.writes[k].value.v)
        /\ UapFails => hist'.cache = "stale" /\ params' = params
                       /\ previous_params' = previous_params
      ]_vars

\* the write-back pass of a reset frame has compared every pair of the
\* re-read maps and written nothing
C29_Witness ==
    /\ ui.at = "diff"
    /\ hist.cache = "reread"
    /\ device.handle = 2
    /\ visited = UiParams
    /\ hist.writes = << >>
    /\ ~ui.any_changes

\* the definition c of a parameter has a range that is not empty, and an
\* IntFew definition has the range 0 .. (number of labels) - 1
WellFormed(c) ==
    /\ c.variant = "IntFew" =>
         /\ c.config.min = 0
         /\ c.config.max = c.config.value_descriptions - 1
    /\ IF is_int(c) THEN c.config.min <= c.config.max
       ELSE F32Le(c.config.min, c.config.max)

\* C30: every IntFew parameter of the registry has min = 0 and max = the
\* number of its value descriptions - 1, and every parameter has
\* min <= max.
C30_DiscreteRange ==
    \A k \in DOMAIN cli.cfg : WellFormed(cli.cfg[k])

\* config() has returned the definition of the parameter with four labels
C30_Witness ==
    /\ cli.at = "calls"
    /\ cli.p = "HPFONOFF"
    /\ Len(cli.cfg) = 1
    /\ cli.cfg[1].variant = "IntFew"
    /\ cli.cfg[1].config.max = 3
    /\ cli.cfg[1].config.value_descriptions = 4

----------------------------------------------------------------------------
(* Properties of the CSV writer.                                           *)

\* the position of p in sorted()
DisplayIndex(p) == CHOOSE i \in DOMAIN sorted : sorted[i] = p

\* a row was written by the open writer
RowWritten == cli.at = "csv" /\ cli.record # << >>

\* C31: every data row has as many fields as the header, two timestamps
\* and one field per parameter; field 2+i is the string form of the sample's
\* value for the i-th parameter of sorted(), and it is the empty string
\* exactly when the sample has no entry for that parameter
C31_CsvRow ==
    RowWritten =>
        /\ Len(cli.record) = Len(cli.header)
        /\ Len(cli.header) = 2 + Cardinality(ParamSet)
        /\ \A i \in 1 .. Len(sorted) :
             LET value == cli.values[sorted[i]]
             IN  /\ value # NoValue => cli.record[2 + i] = to_string(value)
                 /\ cli.record[2 + i] = "" <=> value = NoValue

\* a row of a sample that has the read-only entries only: the column of a
\* float holds "-12.125", the column of an integer "-359", the others nothing
C31_Witness ==
    /\ RowWritten
    /\ cli.record[2 + DisplayIndex("RT60")] = "-12.125"
    /\ cli.record[2 + DisplayIndex("SPEECHDETECTED")] = "-359"
    /\ cli.record[2 + DisplayIndex("AECNORM")] = ""
    /\ cli.values["AECNORM"] = NoValue

----------------------------------------------------------------------------
(* Properties of the two locks.                                            *)

\* thread t stands before state.lock()
RequestsState(t) ==
    IF t = "ui"
    THEN ui.at \in { "grid", "diff_lock" } \/ (ui.at = "uap" /\ ui.i > Len(UiSorted))
    ELSE refresh.at = "tick"

\* run_ui has returned and the refresh thread has ended or was never spawned
Returned == ui.at = "done" /\ refresh.at \in { "none", "stopped", "failed" }

\* a step in which thread t acquires the state lock
AcquiresState(t) == state_lock # t /\ state_lock' = t

\* a step in which thread t acquires the device lock
AcquiresDevice(t) == device_lock # t /\ device_lock' = t

\* C32: a thread that holds both locks took the state lock before the device
\* lock, no thread requests the state lock while it holds the device lock,
\* and until run_ui has returned some thread can take a step
C32_DeadlockFree ==
    /\ [](\A t \in Threads :
            /\ RequestsState(t) => device_lock # t
            /\ (state_lock = t /\ device_lock = t) =>
                 IF t = "ui" THEN ui.at = "diff_io" ELSE refresh.at = "io")
    /\ [](~Returned => ENABLED UiNext)
    /\ [][\A t \in Threads :
            /\ AcquiresState(t) => device_lock # t /\ device_lock' # t
            /\ (AcquiresDevice(t) /\ state_lock' = t) => state_lock = t]_vars

\* the refresh thread holds both locks while the UI thread, which holds
\* neither, waits for the state lock of its write-back pass
C32_Witness ==
    /\ state_lock = "refresh"
    /\ device_lock = "refresh"
    /\ ui.at = "diff_lock"

----------------------------------------------------------------------------
(* Properties of the read-only and the read-write entries of the cache.    *)

\* C33: whenever the state lock is free, every ReadOnly parameter has the
\* same value in both maps as the write-back pass compares them (new != old
\* is false), so that a pass never takes a ReadOnly parameter for changed
C33_ReadOnlyNeverDiffers ==
    state_lock = "none" =>
        \A p \in UiParams : ~IsReadWrite(p) => ~Differs(p)

\* a step of the refresh thread
RefreshStep == refresh.at \in { "top", "tick", "read", "io" } /\ refresh' # refresh

\* C34: a step of the refresh thread leaves the cached value and the
\* snapshot value of every ReadWrite parameter as they are, and an edit that
\* waits for its write keeps waiting
C34_RefreshKeepsReadWrite ==
    [][RefreshStep =>
         \A p \in UiParams :
            IsReadWrite(p) =>
                /\ params'[p] = params[p]
                /\ previous_params'[p] = previous_params[p]
                /\ hist.edits'[p] = hist.edits[p]]_vars

\* the refresh thread has stored the first ReadOnly value and holds the
\* state between two rows of the grid, while the edit of AECNORM to 0.5
\* waits for the write-back pass
C34_Witness ==
    /\ refresh.at = "read"
    /\ refresh.i = 2
    /\ ui.at = "grid"
    /\ hist.edits["AECNORM"] = "pending"
    /\ params["AECNORM"].v = F32(0, 126, 0)
    /\ previous_params["AECNORM"].v = F32(0, 125, 0)

----------------------------------------------------------------------------
(* Properties of the exits of reset.                                       *)

\* reset has returned, with Ok or with an error
ResetExit == ui.at \in { "reset_ok", "reset_err" }

\* the calls of op that the running reset has made
ResetCalls(op) == { k \in DOMAIN hist.reset : hist.reset[k].op = op }

\* C35: on every exit of reset a successful claim_interface has been
\* followed by a call of release_interface, and after a failing control
\* write the interface is no longer claimed
C35_ReleasedOnExit ==
    ResetExit =>
        /\ (\E k \in ResetCalls("claim_interface") : hist.reset[k].ok)
             => ResetCalls("release_interface") # { }
        /\ (\E k \in ResetCalls("write_control") : ~hist.reset[k].ok)
             => ~device.claimed

----------------------------------------------------------------------------
(* Properties of the addresses of the registry.                            *)

\* the address a read of q puts on the wire: the command word and the id
ReadAddress(q) ==
    << read_cmd(is_int(config(q)), config(q).config.cmd), config(q).config.id >>

\* the address a write of q puts on the wire: the command bytes and the id
WriteAddress(q) ==
    << cmd_bytes(is_int(config(q)), config(q).config.cmd), config(q).config.id >>

\* the address the running call would have for parameter q
AddressOf(q) == IF call.op = "read" THEN ReadAddress(q) ELSE WriteAddress(q)

\* the address of the control transfer of the running call
CallAddress ==
    IF call.op = "read" THEN << transfers[1].value, transfers[1].index >>
    ELSE << SubSeq(transfers[1].data, 1, 4), transfers[1].index >>

\* C36: the command of the parameter of a transfer is below 0x40, the
\* command word of a read gives back the command (bits 0..5) and the
\* integer flag (bit 6), and no other parameter of the registry has the
\* (id, cmd) pair, the read address or the write address of the transfer
C36_AddressInjective ==
    transfers # << >> =>
        LET p == call.param
            c == config(p).config
        IN  /\ c.cmd < 64
            /\ call.op = "read" =>
                 /\ transfers[1].value \div 128 = 1
                 /\ transfers[1].value % 64 = c.cmd
                 /\ ((transfers[1].value \div 64) % 2 = 1) <=> is_int(config(p))
            /\ \A q \in ParamSet \ { p } :
                 /\ << config(q).config.id, config(q).config.cmd >> # << c.id, c.cmd >>
                 /\ AddressOf(q) # CallAddress

\* a read of DOAANGLE, command 0 of id 21: the command word is 0x80 | 0x40,
\* the same as that of AGCONOFF, command 0 of id 19; the ids tell them apart
C36_Witness ==
    /\ call.op = "read"
    /\ call.param = "DOAANGLE"
    /\ transfers # << >>
    /\ << transfers[1].value, transfers[1].index >> = << 192, 21 >>
    /\ ReadAddress("AGCONOFF") = << 192, 19 >>

----------------------------------------------------------------------------
(* Properties of the variant of a value.                                   *)

\* the variant of Value that belongs to parameter p
TagOf(p) == IF is_int(config(p)) THEN "Int" ELSE "Float"

\* value is a Value of p: the variant and the definition are those of p
ValueOf(p, value) == value.tag = TagOf(p) /\ value.config = config(p).config

\* C37: a value that read returns for a parameter and a value that
\* parse_value of the parameter's definition returns have the variant of the
\* parameter, Int for an integer and Float for a float parameter, and the
\* write of the CLI never fails with the type mismatch
C37_TagConsistent ==
    /\ cli.at = "list" /\ cli.value # NoValue => ValueOf(cli.rows[Len(cli.rows)], cli.value)
    /\ cli.at = "written" =>
         /\ cli.value # NoValue => ValueOf(cli.p, cli.value)
         /\ ~cli.ret.ok => cli.ret.err.kind # "TypeMismatch"

\* `write AECNORM 5`: the argument is an i32 as well, the definition of the
\* float parameter makes it Float(5.0), and the write succeeds
C37_Witness ==
    /\ cli.at = "written"
    /\ cli.p = "AECNORM"
    /\ cli.arg = << "5" >>
    /\ cli.value = ValueFloat(config("AECNORM").config, F32(0, 129, 2097152))
    /\ cli.ret.ok

----------------------------------------------------------------------------
(* record_respeaker_parameters. Time is counted in units of 10 ms, the     *)
(* length of the sleep of the loop.                                        *)

\* the clock stops here
MaxElapsed == 4

\* the loop is not entered again with this many rows
MaxRows == 2

\* seconds_to_record, in units of 10 ms
RecordSeconds == { 0, 1, 2, 3 }

\* start = Instant::now(): no row, the loop test comes next
RecStart(seconds_to_record) ==
    [at |-> "while", seconds_to_record |-> seconds_to_record,
     elapsed |-> 0,         \* start.elapsed()
     tests |-> 0,           \* the tests of the loop so far
     first |-> 0,           \* start.elapsed() at the first test of the loop
     tested |-> 0,          \* start.elapsed() at the last test of the loop
     refreshes |-> 0,       \* the calls of read_ro that returned Ok
     csv_data |-> << >>,    \* the timestamps of the rows pushed
     ret |-> Ok(NoValue)]

RecInit ==
    /\ call = NoCall
    /\ ret = Ok(NoValue)
    /\ transfers = << >>
    /\ rt = NoRt
    /\ NoUi
    /\ \E seconds_to_record \in RecordSeconds : cli = RecStart(seconds_to_record)

\* start.elapsed().as_secs_f32() > seconds_to_record
while_condition(elapsed, seconds_to_record) == elapsed > seconds_to_record

\* time passes between two statements
Elapse ==
    /\ cli.at # "done"
    /\ cli.elapsed < MaxElapsed
    /\ cli' = [cli EXCEPT !.elapsed = @ + 1]
    /\ UNCHANGED cli_others

\* the test of the while loop
While ==
    /\ cli.at = "while"
    /\ Len(cli.csv_data) < MaxRows
    /\ cli' = [cli EXCEPT !.tests = @ + 1,
                          !.first = IF cli.tests = 0 THEN cli.elapsed ELSE @,
                          !.tested = cli.elapsed,
                          !.at = IF while_condition(cli.elapsed, cli.seconds_to_record)
                                 THEN "read_ro" ELSE "write_csv"]
    /\ UNCHANGED cli_others

\* the refreshes done after a call of read_ro: one more if it returned Ok
read_ro(refreshes, ok) == IF ok THEN refreshes + 1 ELSE refreshes

\* device.read_ro()?: an error ends the function
RecReadRo ==
    /\ cli.at = "read_ro"
    /\ \E ok \in BOOLEAN :
         cli' = [cli EXCEPT !.refreshes = read_ro(@, ok),
                            !.at = IF ok THEN "push" ELSE "done",
                            !.ret = IF ok THEN @ ELSE Err(UsbError("Timeout"))]
    /\ UNCHANGED cli_others

\* csv_data.push((start.elapsed().as_secs_f32(), params))
RecPush ==
    /\ cli.at = "push"
    /\ cli' = [cli EXCEPT !.csv_data = Append(@, cli.elapsed), !.at = "sleep"]
    /\ UNCHANGED cli_others

\* thread::sleep(Duration::from_millis(10)): one unit of time at least
RecSleep ==
    /\ cli.at = "sleep"
    /\ cli' = [cli EXCEPT !.at = "while",
                          !.elapsed = IF @ < MaxElapsed THEN @ + 1 ELSE @]
    /\ UNCHANGED cli_others

\* write_csv(csv_data, &csv_path)?, and the function returns
RecWriteCsv ==
    /\ cli.at = "write_csv"
    /\ \E ok \in BOOLEAN :
         cli' = [cli EXCEPT !.at = "done",
                            !.ret = IF ok THEN Ok(NoValue) ELSE Err(UsbError("Io"))]
    /\ UNCHANGED cli_others

RecNext == Elapse \/ While \/ RecReadRo \/ RecPush \/ RecSleep \/ RecWriteCsv

RecSpec == RecInit /\ [][RecNext]_vars

\* the body of the loop runs
InLoopBody == cli.at \in { "read_ro", "push", "sleep" }

\* C38: the body of the loop runs only after a test at which the elapsed
\* time was below seconds_to_record; the loop is left only at a test at
\* which the elapsed time has reached seconds_to_record; and if the first
\* test came before the duration was over, as it does for a positive
\* duration, one refresh at least was done and one row at least recorded
C38_SamplesWhileBelow ==
    /\ InLoopBody => cli.tested < cli.seconds_to_record
    /\ cli.at = "write_csv" =>
         /\ cli.tested >= cli.seconds_to_record
         /\ cli.first < cli.seconds_to_record =>
              cli.refreshes >= 1 /\ Len(cli.csv_data) >= 1

----------------------------------------------------------------------------
(* Properties of the end of run_ui.                                        *)

\* the refresh thread was spawned
Spawned == refresh.at # "none"

\* shutdown_tx.send(()) is executed
SendRuns == ui.at = "send" /\ ui'.at # "send"

\* run_ui returns
RunUiReturns == ui.at # "done" /\ ui'.at = "done"

\* C39: once the UI has exited, run_ui puts the shutdown signal on the
\* channel and goes on to join the refresh thread, and it returns only from
\* the join, with the thread ended; this also when the thread has ended on
\* its own before
C39_SignalJoinReturn ==
    [][ /\ SendRuns /\ Spawned => ui'.at = "join"
        /\ RunUiReturns /\ Spawned =>
             ui.at = "join" /\ refresh.at \in { "stopped", "failed" }
      ]_vars

====
